---------------------------- MODULE Spec2Model ----------------------------
(***************************************************************************)
(* A model of the memory/context pipeline of the coaching chatbot:         *)
(*   - DatabaseManager.save_conversation        (src/database.py)          *)
(*   - DatabaseManager.update_or_create_topic   (src/database.py)          *)
(*   - MemoryProcessor.generate_summaries / generate_timeframe_summary     *)
(*                                              (src/memory_processor.py)  *)
(*   - the extraction operations and their pydantic result containers      *)
(*   - SummaryScheduler.start / stop / _run_scheduler                      *)
(*                                              (src/summary_scheduler.py) *)
(*                                                                         *)
(* Time is in seconds.  `now` is the UTC clock read by SQLite's            *)
(* datetime('now'); Python's datetime.now() reads the local clock, which   *)
(* is now + tz.                                                            *)
(***************************************************************************)
EXTENDS Integers, Sequences, FiniteSets, TLC

(***************************************************************************)
(* Bounds of the model.                                                    *)
(***************************************************************************)
MaxRows == 3
MaxCalls == 4
MaxConvTicks == 3
MaxBurstRows == 7
MaxBurstTicks == 2
MaxTopicCalls == 3
MaxSummaryRows == 3
MaxSummaryTurns == 1
MaxSummaryTicks == 1
MaxExtractRows == 2
MaxExtractTurns == 1
MaxFaultRows == 2
MaxFaultTurns == 1
MaxThreads == 2
MaxSchedTicks == 4
MaxSweepTicks == 2
MaxActionItems == 2
MaxActionTicks == 2
MaxContextTurns == 1
MaxContextInsights == 1
MaxContextTopics == 1
MaxPendingItems == 22
MaxFailureRows == 1
MaxTurns == 1
MaxHistoryRows == 3
MaxHistoryTicks == 1
MaxHourlyTicks == 5
MaxSends == 1
MaxSessionRows == 3
MaxSessionTurns == 2
MaxSessionTicks == 3
MaxRaceTurns == 1

(***************************************************************************)
(* Program constants.                                                      *)
(***************************************************************************)
DedupWindow == 60
DedupLimit == 5
SubstringMinLen == 10
Hour == 3600
Day == 86400
DailyAgeDays == 1
WeeklyAgeDays == 7

Users == {"u1", "u2"}
Roles == {"user", "assistant"}

None == [none |-> TRUE]

(***************************************************************************)
(* Message contents are character sequences; characters are small numbers. *)
(***************************************************************************)
Short1 == <<1>>
Short2 == <<1, 2>>
Short3 == <<3>>
Short4 == <<4>>
Short5 == <<5>>
Long11 == <<7, 7, 7, 7, 7, 7, 7, 7, 7, 7, 9>>
Long12 == <<7, 7, 7, 7, 7, 7, 7, 7, 7, 7, 9, 8>>

VARIABLES now, tz, conversations, nCalls, firstCall, lastCall, topics, topicLog,
          summaries, gens,
          user_insights, action_items, progress_metrics, extracted,
          running, thread, threads, last_check, schedCall, restartPending,
          swept, lockHolder, storeOp, codex_vitae, formatted, outcome, turn,
          saving, history, analysed, users_table, hourly, mutex, flow, send,
          sessions, generating

vars == <<now, tz, conversations, nCalls, firstCall, lastCall, topics, topicLog,
          summaries, gens,
          user_insights, action_items, progress_metrics, extracted,
          running, thread, threads, last_check, schedCall, restartPending,
          swept, lockHolder, storeOp, codex_vitae, formatted, outcome, turn,
          saving, history, analysed, users_table, hourly, mutex, flow, send,
          sessions, generating>>

convVars == <<conversations, nCalls, firstCall, lastCall>>
topicVars == <<topics, topicLog>>
summaryVars == <<summaries, gens>>
insightVars == <<user_insights, action_items, progress_metrics, extracted>>
schedVars == <<running, thread, threads, last_check, schedCall, restartPending>>
ctxVars == <<codex_vitae, formatted>>
ghostVars == <<outcome, turn>>
historyVars == <<saving, history>>
hourlyVars == <<users_table, hourly>>
mutexVars == <<mutex, flow>>
laterVars == <<send, sessions, generating>>
extraVars == <<historyVars, analysed, hourlyVars, mutexVars, laterVars>>
auxVars == <<swept, lockHolder, storeOp, ctxVars, ghostVars, extraVars>>

(***************************************************************************)
(* Python's `a in b` on strings: a occurs in b as a contiguous run.        *)
(***************************************************************************)
IsSubstring(a, b) ==
    \E i \in 0..(Len(b) - Len(a)) : SubSeq(b, i + 1, i + Len(a)) = a

(***************************************************************************)
(* The duplicate test of save_conversation's loop body.                    *)
(***************************************************************************)
IsDuplicate(content, msg_content) ==
    \/ content = msg_content
    \/ Len(content) > SubstringMinLen /\ IsSubstring(content, msg_content)
    \/ Len(msg_content) > SubstringMinLen /\ IsSubstring(msg_content, content)

(***************************************************************************)
(* The rows the SELECT of save_conversation can see: same user and role,   *)
(* timestamp >= datetime('now', '-1 minute').                              *)
(***************************************************************************)
RecentWindow(user_id, role) ==
    {i \in 1..Len(conversations) :
        /\ conversations[i].user_id = user_id
        /\ conversations[i].role = role
        /\ conversations[i].timestamp >= now - DedupWindow}

(***************************************************************************)
(* ORDER BY timestamp DESC LIMIT 5: the possible result sets.  A result    *)
(* has min(5, |W|) rows and no row left out is newer than a row kept; rows *)
(* with equal timestamps come in an order SQLite does not specify.         *)
(***************************************************************************)
RecentMessages(W) ==
    IF Cardinality(W) <= DedupLimit
    THEN {W}
    ELSE {R \in SUBSET W :
            /\ Cardinality(R) = DedupLimit
            /\ \A i \in R : \A j \in W \ R :
                  conversations[j].timestamp <= conversations[i].timestamp}

(***************************************************************************)
(* DatabaseManager.save_conversation                                       *)
(***************************************************************************)
save_conversation(user_id, role, content) ==
    /\ \E R \in RecentMessages(RecentWindow(user_id, role)) :
         /\ LET matches == {i \in R : IsDuplicate(content, conversations[i].content)}
                call(ret, ins) == [n |-> nCalls + 1, user_id |-> user_id, role |-> role,
                                   content |-> content, at |-> now,
                                   ret |-> ret, inserted |-> ins]
            IN  IF matches = {}
                THEN /\ conversations' = Append(conversations,
                            [id |-> Len(conversations) + 1, user_id |-> user_id,
                             role |-> role, content |-> content, timestamp |-> now])
                     /\ lastCall' = call(Len(conversations) + 1, TRUE)
                ELSE /\ \E m \in matches :
                          /\ \A k \in matches :
                                conversations[k].timestamp <= conversations[m].timestamp
                          /\ lastCall' = call(conversations[m].id, FALSE)
                     /\ UNCHANGED conversations
    /\ gens' = <<>>
    /\ UNCHANGED <<now, tz, topicVars, summaries>>


(***************************************************************************)
(* Topic names are character sequences over a small alphabet: an ASCII     *)
(* letter in both cases, a non-ASCII letter in both cases (E-acute,        *)
(* written "E'" and "e'"), and the space.                                  *)
(***************************************************************************)
PyLowerChar(ch) ==
    CASE ch = "A" -> "a"
      [] ch = "E'" -> "e'"
      [] OTHER -> ch

(***************************************************************************)
(* SQLite's built-in LOWER() folds the ASCII letters only.                 *)
(***************************************************************************)
SqlLowerChar(ch) ==
    CASE ch = "A" -> "a"
      [] OTHER -> ch

PyLower(name) == [i \in 1..Len(name) |-> PyLowerChar(name[i])]

SqlLower(name) == [i \in 1..Len(name) |-> SqlLowerChar(name[i])]

RECURSIVE LStrip(_)
LStrip(name) ==
    IF name # <<>> /\ Head(name) = " " THEN LStrip(Tail(name)) ELSE name

RECURSIVE RStrip(_)
RStrip(name) ==
    IF name # <<>> /\ name[Len(name)] = " "
    THEN RStrip(SubSeq(name, 1, Len(name) - 1))
    ELSE name

Strip(name) == RStrip(LStrip(name))

(***************************************************************************)
(* normalized_name = topic_name.lower().strip()                            *)
(***************************************************************************)
NormalizedName(topic_name) == Strip(PyLower(topic_name))

(***************************************************************************)
(* Relevance scores are exact fractions <<numerator, denominator>> in      *)
(* lowest terms with a positive denominator.                               *)
(***************************************************************************)
RECURSIVE GCD(_, _)
GCD(a, b) == IF b = 0 THEN a ELSE GCD(b, a % b)

Frac(n, d) ==
    LET g == GCD(IF n < 0 THEN -n ELSE n, d)
    IN  IF g = 0 THEN <<0, 1>> ELSE <<n \div g, d \div g>>

(***************************************************************************)
(* new_relevance = (old_relevance * mention_count + relevance_score)       *)
(*                     / new_mention_count                                 *)
(***************************************************************************)
NewRelevance(old_relevance, mention_count, relevance_score) ==
    Frac(old_relevance[1] * mention_count * relevance_score[2]
            + relevance_score[1] * old_relevance[2],
         old_relevance[2] * relevance_score[2] * (mention_count + 1))

(***************************************************************************)
(* The rows matched by  WHERE user_id = ? AND LOWER(name) = ?              *)
(***************************************************************************)
TopicMatches(rows, user_id, normalized_name) ==
    {i \in 1..Len(rows) :
        /\ rows[i].user_id = user_id
        /\ SqlLower(rows[i].name) = normalized_name}

(***************************************************************************)
(* DatabaseManager.update_or_create_topic.  fetchone() takes one of the    *)
(* matching rows; the SELECT has no ORDER BY.                              *)
(***************************************************************************)
TopicUpserts(rows, user_id, topic_name, relevance_score) ==
    LET matches == TopicMatches(rows, user_id, NormalizedName(topic_name))
    IN  IF matches # {}
        THEN {[rows EXCEPT ![i] =
                 [@ EXCEPT !.mention_count = @ + 1,
                           !.relevance_score =
                               NewRelevance(rows[i].relevance_score,
                                            rows[i].mention_count,
                                            relevance_score),
                           !.name = IF Len(topic_name) > Len(@)
                                    THEN topic_name ELSE @]] : i \in matches}
        ELSE {Append(rows,
                 [id |-> Len(rows) + 1, user_id |-> user_id, name |-> topic_name,
                  relevance_score |-> relevance_score, mention_count |-> 1])}

update_or_create_topic(user_id, topic_name, relevance_score) ==
    /\ topics' \in TopicUpserts(topics, user_id, topic_name, relevance_score)
    /\ topicLog' = Append(topicLog,
           [user_id |-> user_id, name |-> topic_name, relevance |-> relevance_score])
    /\ UNCHANGED <<now, tz, convVars, summaryVars>>

(***************************************************************************)
(* Summary documents (SummaryContent): three list fields, three texts.     *)
(***************************************************************************)
NoActivitySummary ==
    [key_themes |-> <<"No activity">>,
     emotional_journey |-> "There was no coaching activity during this period.",
     insights_gained |-> <<"Consider re-engaging with the coaching process">>,
     progress_made |-> "No coaching interactions to assess progress during this period.",
     action_items |-> <<"Schedule a check-in session", "Review previous goals">>,
     recommended_focus |-> "Consider what support would be most valuable right now and how to re-engage with the coaching process."]

FallbackSummary ==
    [key_themes |-> <<"Technical error prevented detailed analysis">>,
     emotional_journey |-> "Unable to analyze emotional journey due to technical limitations.",
     insights_gained |-> <<"Check conversation directly for insights">>,
     progress_made |-> "Summary generation encountered an error. Please review conversations directly.",
     action_items |-> <<"Review conversation history manually", "Try generating summary again later">>,
     recommended_focus |-> "Addressing immediate client needs while technical issues are resolved."]

(***************************************************************************)
(* What the LLM service answers to a summary request: a document that      *)
(* validates against SummaryContent (its lists are of any length), or a    *)
(* failure (the call raises, or the answer does not validate).             *)
(***************************************************************************)
LlmRaises == [raised |-> TRUE]

LlmParsed(doc) == [raised |-> FALSE, parsed |-> doc]

LlmSummary6 ==
    [key_themes |-> <<"t1", "t2", "t3", "t4", "t5", "t6">>,
     emotional_journey |-> "journey",
     insights_gained |-> <<"i1", "i2", "i3", "i4", "i5", "i6">>,
     progress_made |-> "progress",
     action_items |-> <<"a1", "a2", "a3", "a4", "a5", "a6">>,
     recommended_focus |-> "focus"]

LlmSummaryAnswers == {LlmRaises, LlmParsed(LlmSummary6)}

Timeframes == {"daily", "weekly"}

(***************************************************************************)
(* datetime.now(): the local clock.                                        *)
(***************************************************************************)
LocalNow == now + tz

Midnight(t) == (t \div Day) * Day

(***************************************************************************)
(* DatabaseManager.get_conversations_for_timeframe: the window runs from   *)
(* local midnight one day (seven days) back to 23:59:59 of the local day,  *)
(* and is compared with the stored UTC timestamps.                         *)
(***************************************************************************)
WindowStart(timeframe) ==
    IF timeframe = "daily" THEN Midnight(LocalNow - Day) ELSE Midnight(LocalNow - 7 * Day)

WindowEnd == Midnight(LocalNow) + Day - 1

get_conversations_for_timeframe(user_id, timeframe) ==
    LET InWindow(row) ==
            /\ row.user_id = user_id
            /\ row.timestamp >= WindowStart(timeframe)
            /\ row.timestamp <= WindowEnd
            /\ row.role # "" /\ row.content # <<>>
        found == SelectSeq(conversations, InWindow)
    IN  [i \in 1..Len(found) |-> [role |-> found[i].role, content |-> found[i].content]]

(***************************************************************************)
(* The document generate_timeframe_summary persists, and whether it asked  *)
(* the LLM service: no turns give the "no activity" document without a     *)
(* call; otherwise the LLM's document, or the fallback when the call fails.*)
(***************************************************************************)
TimeframeSummary_NoEmptyCheck(found, llm) ==
    IF llm.raised
    THEN [doc |-> FallbackSummary, llm_called |-> TRUE]
    ELSE [doc |-> llm.parsed, llm_called |-> TRUE]

TimeframeSummary_NoFallback(found, llm) ==
    IF found = <<>>
    THEN [doc |-> NoActivitySummary, llm_called |-> FALSE]
    ELSE IF llm.raised
         THEN [doc |-> [key_themes |-> <<>>, emotional_journey |-> "",
                        insights_gained |-> <<>>, progress_made |-> "",
                        action_items |-> <<>>, recommended_focus |-> ""],
               llm_called |-> TRUE]
         ELSE [doc |-> llm.parsed, llm_called |-> TRUE]

TimeframeSummary(found, llm) ==
    IF found = <<>>
    THEN [doc |-> NoActivitySummary, llm_called |-> FALSE]
    ELSE IF llm.raised
         THEN [doc |-> FallbackSummary, llm_called |-> TRUE]
         ELSE [doc |-> llm.parsed, llm_called |-> TRUE]

(***************************************************************************)
(* DatabaseManager.save_summary: one more row, last_updated datetime('now')*)
(***************************************************************************)
save_summary(rows, user_id, timeframe, doc) ==
    Append(rows, [id |-> Len(rows) + 1, user_id |-> user_id, timeframe |-> timeframe,
                  summary |-> doc, last_updated |-> now])

(***************************************************************************)
(* DatabaseManager.get_latest_summary, reduced to last_updated: the set    *)
(* holding the newest last_updated of the pair, empty when the pair has no *)
(* row (the None result).                                                  *)
(***************************************************************************)
LatestUpdated(rows, user_id, timeframe) ==
    LET mine == {i \in 1..Len(rows) :
                    rows[i].user_id = user_id /\ rows[i].timeframe = timeframe}
    IN  {rows[i].last_updated : i \in
            {i \in mine : \A j \in mine : rows[j].last_updated <= rows[i].last_updated}}

(***************************************************************************)
(* MemoryProcessor._summary_needed: (datetime.now() - last_updated).days,  *)
(* with datetime.now() local and last_updated as stored (UTC).             *)
(***************************************************************************)
_summary_needed(last_updated, timeframe) ==
    LET days == (LocalNow - last_updated) \div Day
    IN  IF timeframe = "daily" THEN days >= DailyAgeDays
        ELSE IF timeframe = "weekly" THEN days >= WeeklyAgeDays
        ELSE FALSE

(***************************************************************************)
(* One run of generate_timeframe_summary on the rows given: the rows       *)
(* afterwards and a record of what the run did.                            *)
(***************************************************************************)
TimeframeRun(rows, user_id, timeframe, llm) ==
    LET found == get_conversations_for_timeframe(user_id, timeframe)
        res == TimeframeSummary(found, llm)
    IN  [rows |-> save_summary(rows, user_id, timeframe, res.doc),
         rec |-> [user_id |-> user_id, timeframe |-> timeframe, turns |-> Len(found),
                  llm_called |-> res.llm_called,
                  llm_raised |-> res.llm_called /\ llm.raised,
                  latest |-> LatestUpdated(rows, user_id, timeframe), at |-> now,
                  first_row |-> Len(rows) + 1,
                  rows_added |-> Len(save_summary(rows, user_id, timeframe, res.doc))
                                    - Len(rows)]]

(***************************************************************************)
(* MemoryProcessor.generate_timeframe_summary                              *)
(***************************************************************************)
generate_timeframe_summary(user_id, timeframe, llm) ==
    LET run == TimeframeRun(summaries, user_id, timeframe, llm)
    IN  /\ summaries' = run.rows
        /\ gens' = <<run.rec>>
        /\ UNCHANGED <<now, tz, convVars, topicVars>>

(***************************************************************************)
(* The staleness check of generate_summaries for one timeframe.            *)
(***************************************************************************)
SummaryDue(rows, user_id, timeframe) ==
    \/ LatestUpdated(rows, user_id, timeframe) = {}
    \/ \E last_updated \in LatestUpdated(rows, user_id, timeframe) :
          _summary_needed(last_updated, timeframe)

(***************************************************************************)
(* MemoryProcessor.generate_summaries: daily first, then weekly.           *)
(***************************************************************************)
generate_summaries(user_id, llmDaily, llmWeekly) ==
    LET dueD == SummaryDue(summaries, user_id, "daily")
        runD == TimeframeRun(summaries, user_id, "daily", llmDaily)
        rowsD == IF dueD THEN runD.rows ELSE summaries
        dueW == SummaryDue(rowsD, user_id, "weekly")
        runW == TimeframeRun(rowsD, user_id, "weekly", llmWeekly)
    IN  /\ summaries' = IF dueW THEN runW.rows ELSE rowsD
        /\ gens' = (IF dueD THEN <<runD.rec>> ELSE <<>>)
                       \o (IF dueW THEN <<runW.rec>> ELSE <<>>)
        /\ UNCHANGED <<now, tz, convVars, topicVars>>

(***************************************************************************)
(* The conversation store on its own: save_conversation calls and the      *)
(* passing of time in steps of ConvStep seconds.                           *)
(***************************************************************************)
ConvStep == 30

ConvContents == {Short1, Short2, Short3, Long11, Long12}

SaveInputs ==
    {<<"u1", "user", c>> : c \in ConvContents}
        \cup {<<"u1", "assistant", Short1>>, <<"u2", "user", Short1>>}

InitInsights ==
    /\ user_insights = <<>>
    /\ action_items = <<>>
    /\ progress_metrics = <<>>
    /\ extracted = <<>>

InitScheduler ==
    /\ running = FALSE
    /\ thread = 0
    /\ threads = <<>>
    /\ last_check = [u \in Users |-> {}]
    /\ schedCall = [op |-> "none", alive_before |-> FALSE, created |-> FALSE]
    /\ restartPending = FALSE

DbInstances == {"session.db", "context_manager.db", "session2.db"}

Flows == {"foreground", "scheduler", "foreground2"}

Idle == [op |-> "idle", db |-> "none", locked |-> FALSE]

Sessions == {"session1", "session2"}

NotSaving == [pc |-> "idle"]

Threads == {"script", "scheduler"}

NotStarted == [name |-> "none", steps |-> <<>>, pos |-> 1]

NotGenerating == [pc |-> "idle", due |-> FALSE]

NoSend == [pc |-> "idle", n |-> 0, before |-> 0, failed |-> FALSE]

NoSweep ==
    [n |-> 0, at |-> 0, listed |-> <<>>, before |-> [u \in Users |-> {}],
     invoked |-> {}, invoked_at |-> [u \in Users |-> {}]]

NoAnalysis == [failed |-> FALSE, used |-> {}, topics |-> <<>>]

NoOutcome == [op |-> "none", store_raised |-> FALSE, surfaced |-> FALSE]

NoTurn == [pc |-> "idle", n |-> 0, user_id |-> "", message_id |-> 0, calls |-> <<>>]

InitAux ==
    /\ swept = <<>>
    /\ lockHolder = [db \in DbInstances |-> "none"]
    /\ storeOp = [f \in Flows |-> Idle]
    /\ codex_vitae = [u \in Users |-> <<>>]
    /\ formatted = <<>>
    /\ outcome = NoOutcome
    /\ turn = NoTurn
    /\ saving = [s \in Sessions |-> NotSaving]
    /\ history = <<>>
    /\ analysed = NoAnalysis
    /\ users_table = <<>>
    /\ hourly = NoSweep
    /\ mutex = [db \in DbInstances |-> "none"]
    /\ flow = [t \in Threads |-> NotStarted]
    /\ send = NoSend
    /\ sessions = <<>>
    /\ generating = [s \in Sessions |-> NotGenerating]

Init ==
    /\ now = 0
    /\ tz = 0
    /\ conversations = <<>>
    /\ nCalls = 0
    /\ firstCall = None
    /\ lastCall = None
    /\ topics = <<>>
    /\ topicLog = <<>>
    /\ summaries = <<>>
    /\ gens = <<>>
    /\ InitInsights
    /\ InitScheduler
    /\ InitAux

(***************************************************************************)
(* A caller saves a turn.  firstCall remembers one earlier call, chosen    *)
(* freely, to compare a later call of the same turn with.                  *)
(***************************************************************************)
SaveConversation ==
    /\ nCalls < MaxCalls
    /\ Len(conversations) < MaxRows
    /\ \E inp \in SaveInputs : save_conversation(inp[1], inp[2], inp[3])
    /\ nCalls' = nCalls + 1
    /\ firstCall' \in {firstCall, lastCall'}
    /\ UNCHANGED <<insightVars, schedVars, auxVars>>

TickConv ==
    /\ now + ConvStep <= MaxConvTicks * ConvStep
    /\ now' = now + ConvStep
    /\ UNCHANGED <<tz, convVars, topicVars, summaryVars, insightVars, schedVars, auxVars>>

NextConv == SaveConversation \/ TickConv

SpecConv == Init /\ [][NextConv]_vars

(***************************************************************************)
(* A burst of turns of one user and role: more than DedupLimit turns with  *)
(* unrelated contents inside one dedup window.                             *)
(***************************************************************************)
BurstStep == 45

BurstContents == {Short1, Short3, Short4, Short5, <<6>>, Long11}

SaveBurst ==
    /\ Len(conversations) < MaxBurstRows
    /\ \E c \in BurstContents : save_conversation("u1", "user", c)
    /\ UNCHANGED <<nCalls, firstCall, insightVars, schedVars, auxVars>>

TickBurst ==
    /\ now + BurstStep <= MaxBurstTicks * BurstStep
    /\ now' = now + BurstStep
    /\ UNCHANGED <<tz, convVars, topicVars, summaryVars, insightVars, schedVars, auxVars>>

NextBurst == SaveBurst \/ TickBurst

SpecBurst == Init /\ [][NextBurst]_vars


(***************************************************************************)
(* The topic store on its own: a bounded number of update_or_create_topic  *)
(* calls with names that differ in case, in whitespace and in length.      *)
(***************************************************************************)
TopicNames ==
    {<<"a">>, <<"A">>, <<"a", " ">>, <<" ", "A">>, <<"E'">>, <<"e'">>, <<"A", "a">>}

RelevanceScores == {Frac(1, 5), Frac(4, 5)}

UpdateOrCreateTopic ==
    /\ Len(topicLog) < MaxTopicCalls
    /\ \E u \in Users, name \in TopicNames, r \in RelevanceScores :
          update_or_create_topic(u, name, r)
    /\ UNCHANGED <<insightVars, schedVars, auxVars>>

NextTopic == UpdateOrCreateTopic

SpecTopic == Init /\ [][NextTopic]_vars


(***************************************************************************)
(* The summary pipeline: turns are saved, time passes, summaries are       *)
(* requested through generate_summaries (the scheduler's path) and through *)
(* generate_now / the "Generate Summary Now" button, which call            *)
(* generate_timeframe_summary directly.  The server's UTC offset is fixed  *)
(* at start: UTC, or twelve hours ahead of it.                             *)
(***************************************************************************)
TzOffsets == {0, 12 * Hour}

SummaryStep == 12 * Hour

SummaryUsers == {"u1"}

InitSummary ==
    /\ now = 0
    /\ tz \in TzOffsets
    /\ conversations = <<>>
    /\ nCalls = 0
    /\ firstCall = None
    /\ lastCall = None
    /\ topics = <<>>
    /\ topicLog = <<>>
    /\ summaries = <<>>
    /\ gens = <<>>
    /\ InitInsights
    /\ InitScheduler
    /\ InitAux

SaveTurn ==
    /\ Len(conversations) < MaxSummaryTurns
    /\ \E u \in Users : save_conversation(u, "user", Short1)
    /\ UNCHANGED <<nCalls, firstCall, insightVars, schedVars, auxVars>>

GenerateSummaries ==
    /\ \E u \in SummaryUsers, llmDaily \in LlmSummaryAnswers, llmWeekly \in LlmSummaryAnswers :
          generate_summaries(u, llmDaily, llmWeekly)
    /\ Len(summaries') <= MaxSummaryRows
    /\ UNCHANGED <<insightVars, schedVars, auxVars>>

GenerateNow ==
    /\ Len(summaries) < MaxSummaryRows
    /\ \E u \in SummaryUsers, timeframe \in Timeframes, llm \in LlmSummaryAnswers :
          generate_timeframe_summary(u, timeframe, llm)
    /\ UNCHANGED <<insightVars, schedVars, auxVars>>

TickSummary ==
    /\ now + SummaryStep <= MaxSummaryTicks * SummaryStep
    /\ now' = now + SummaryStep
    /\ gens' = <<>>
    /\ UNCHANGED <<tz, convVars, topicVars, summaries, insightVars, schedVars, auxVars>>

NextSummary == SaveTurn \/ GenerateSummaries \/ GenerateNow \/ TickSummary

SpecSummary == InitSummary /\ [][NextSummary]_vars


(***************************************************************************)
(* Structured-output models (memory_processor.py:13-60): the fields a      *)
(* constructor call has to supply.  No field has a default, so a call      *)
(* without arguments fails validation.                                     *)
(***************************************************************************)
MetricFields == <<"stress_level", "anxiety_level", "positivity", "activation">>

RequiredFields(model) ==
    CASE model = "UserInsightsResponse" -> {"insights"}
      [] model = "TopicsResponse" -> {"topics"}
      [] model = "ActionItemsResponse" -> {"items"}
      [] model = "EmotionalMetrics" -> {MetricFields[i] : i \in 1..Len(MetricFields)}

Construct(model, given) ==
    [raised |-> ~(RequiredFields(model) \subseteq given), value |-> <<>>]

EmptyResponse(model) == Construct(model, {})

(***************************************************************************)
(* The two nested try blocks of every MemoryProcessor extractor: the inner *)
(* one wraps the LLM call and answers a failure with `return Model()`, the *)
(* outer one wraps the inner and does the same.                            *)
(***************************************************************************)
InnerTry(model, llm) ==
    IF llm.raised
    THEN EmptyResponse(model)
    ELSE [raised |-> FALSE, value |-> llm.parsed]

OuterTry(model, body) ==
    IF body.raised THEN EmptyResponse(model) ELSE body

get_conversation_history(user_id) ==
    SelectSeq(conversations, LAMBDA row : row.user_id = user_id)

_extract_user_insights_from_message(user_id, message, llm) ==
    IF message = <<>>
    THEN EmptyResponse("UserInsightsResponse")
    ELSE OuterTry("UserInsightsResponse",
             IF get_conversation_history(user_id) = <<>>
             THEN EmptyResponse("UserInsightsResponse")
             ELSE InnerTry("UserInsightsResponse", llm))

_extract_action_items_from_message(message, llm) ==
    IF message = <<>>
    THEN EmptyResponse("ActionItemsResponse")
    ELSE OuterTry("ActionItemsResponse", InnerTry("ActionItemsResponse", llm))

_extract_topics_from_message(message, llm) ==
    IF message = <<>>
    THEN EmptyResponse("TopicsResponse")
    ELSE OuterTry("TopicsResponse", InnerTry("TopicsResponse", llm))

_extract_emotional_metrics(message, llm) ==
    IF message = <<>>
    THEN EmptyResponse("EmotionalMetrics")
    ELSE OuterTry("EmotionalMetrics", InnerTry("EmotionalMetrics", llm))

(***************************************************************************)
(* ContextManager._extract_action_items: a list of strings, the empty list *)
(* when the LLM call fails.                                                *)
(***************************************************************************)
_extract_action_items(response, llm) ==
    IF response = <<>>
    THEN [raised |-> FALSE, value |-> <<>>]
    ELSE IF llm.raised
         THEN [raised |-> FALSE, value |-> <<>>]
         ELSE [raised |-> FALSE,
               value |-> [i \in 1..Len(llm.parsed) |-> llm.parsed[i].content]]

(***************************************************************************)
(* What one extractor call did: whether its LLM call was made and raised,  *)
(* whether the extractor raised to its caller, how many entries it gave.   *)
(***************************************************************************)
MetricsGiven(value) ==
    SelectSeq(MetricFields, LAMBDA f : value[f] # {})

Extraction(op, llm_called, llm, res) ==
    [op |-> op,
     llm_raised |-> llm_called /\ llm.raised,
     raised |-> res.raised,
     count |-> IF res.raised THEN 0
               ELSE IF op = "emotional_metrics" /\ llm_called
                    THEN Len(MetricsGiven(res.value))
                    ELSE Len(res.value)]

(***************************************************************************)
(* The rows process_conversation_for_insights saves.                       *)
(***************************************************************************)
InsightRows(rows, user_id, res) ==
    IF res.raised THEN rows
    ELSE rows \o [i \in 1..Len(res.value) |->
            [id |-> Len(rows) + i, user_id |-> user_id,
             category |-> res.value[i].category, content |-> res.value[i].content,
             confidence |-> res.value[i].confidence]]

ActionItemRows(rows, user_id, res) ==
    IF res.raised THEN rows
    ELSE rows \o [i \in 1..Len(res.value) |->
            [id |-> Len(rows) + i, user_id |-> user_id,
             content |-> res.value[i].content, source_message_id |-> 0,
             status |-> "pending", completed_at |-> {}]]

MetricRows(rows, user_id, res) ==
    IF res.raised THEN rows
    ELSE LET given == MetricsGiven(res.value)
         IN  rows \o [i \in 1..Len(given) |->
                 [id |-> Len(rows) + i, user_id |-> user_id,
                  metric_name |-> given[i],
                  value |-> CHOOSE v \in res.value[given[i]] : TRUE]]

RECURSIVE TopicRows(_, _, _)
TopicRows(rows, user_id, items) ==
    IF items = <<>>
    THEN {rows}
    ELSE UNION {TopicRows(r, user_id, Tail(items)) :
                  r \in TopicUpserts(rows, user_id, Head(items).name,
                                     Head(items).relevance)}

(***************************************************************************)
(* The try/except around each of the four steps of                         *)
(* process_conversation_for_insights: the exception is logged and does not *)
(* leave the step.  The value is "the exception leaves the step".          *)
(***************************************************************************)
StepTry_Unprotected(raised) == raised

StepTry(raised) == FALSE

(***************************************************************************)
(* The store writes of process_conversation_for_insights.  A write in      *)
(* faults raises on every call; each call sits in its own try/except, so   *)
(* the item is skipped.                                                    *)
(***************************************************************************)
SaveOps ==
    {"save_user_insight", "save_action_item", "update_or_create_topic",
     "save_progress_metric"}

RECURSIVE Mentions(_)
Mentions(rows) ==
    IF rows = <<>> THEN 0 ELSE Head(rows).mention_count + Mentions(Tail(rows))

(***************************************************************************)
(* What one step did: the extraction and its result, whether its saves     *)
(* raised, whether an exception left the step, and the size of its table   *)
(* before the step.                                                        *)
(***************************************************************************)
Step(user_id, role, ext, res, save_raised, size_before) ==
    [user_id |-> user_id, role |-> role, save_raised |-> save_raised,
     size_before |-> size_before, escaped |-> StepTry(ext.raised),
     result |-> IF res.raised THEN {} ELSE {res.value}] @@ ext

(***************************************************************************)
(* MemoryProcessor.process_conversation_for_insights: the four extraction  *)
(* steps with their saves, in order; a step runs when no exception has     *)
(* left an earlier one.  llm is the LLM's answer to each of the four       *)
(* extraction requests, faults the store writes that raise.                *)
(***************************************************************************)
process_conversation_for_insights(user_id, role, content, llm, faults) ==
    IF content = <<>> \/ role = ""
    THEN /\ extracted' = <<>>
         /\ UNCHANGED <<user_insights, action_items, progress_metrics, topicVars>>
    ELSE LET has_history == get_conversation_history(user_id) # <<>>
             insights == _extract_user_insights_from_message(user_id, content, llm.insights)
             items == _extract_action_items_from_message(content, llm.items)
             found == _extract_topics_from_message(content, llm.topics)
             metrics == _extract_emotional_metrics(content, llm.metrics)
             step1 == role = "user"
             out1 == step1 /\ StepTry(insights.raised)
             step2 == ~out1 /\ role = "assistant"
             out2 == out1 \/ (step2 /\ StepTry(items.raised))
             step3 == ~out2
             out3 == out2 \/ (step3 /\ StepTry(found.raised))
             step4 == ~out3 /\ role = "user"
             topics_saved == step3 /\ ~found.raised /\ "update_or_create_topic" \notin faults
         IN  /\ user_insights' = IF step1 /\ "save_user_insight" \notin faults
                                 THEN InsightRows(user_insights, user_id, insights)
                                 ELSE user_insights
             /\ action_items' = IF step2 /\ "save_action_item" \notin faults
                                THEN ActionItemRows(action_items, user_id, items)
                                ELSE action_items
             /\ topics' \in IF topics_saved
                            THEN TopicRows(topics, user_id, found.value)
                            ELSE {topics}
             /\ topicLog' = IF topics_saved
                            THEN topicLog \o [i \in 1..Len(found.value) |->
                                     [user_id |-> user_id, name |-> found.value[i].name,
                                      relevance |-> found.value[i].relevance]]
                            ELSE topicLog
             /\ progress_metrics' = IF step4 /\ "save_progress_metric" \notin faults
                                    THEN MetricRows(progress_metrics, user_id, metrics)
                                    ELSE progress_metrics
             /\ extracted' =
                   (IF step1
                    THEN <<Step(user_id, role,
                                Extraction("user_insights", has_history, llm.insights, insights),
                                insights,
                                "save_user_insight" \in faults, Len(user_insights))>>
                    ELSE <<>>)
                   \o (IF step2
                       THEN <<Step(user_id, role,
                                   Extraction("action_items", TRUE, llm.items, items),
                                   items,
                                   "save_action_item" \in faults, Len(action_items))>>
                       ELSE <<>>)
                   \o (IF step3
                       THEN <<Step(user_id, role,
                                   Extraction("topics", TRUE, llm.topics, found),
                                   found,
                                   "update_or_create_topic" \in faults, Mentions(topics))>>
                       ELSE <<>>)
                   \o (IF step4
                       THEN <<Step(user_id, role,
                                   Extraction("emotional_metrics", TRUE, llm.metrics, metrics),
                                   metrics,
                                   "save_progress_metric" \in faults, Len(progress_metrics))>>
                       ELSE <<>>)

(***************************************************************************)
(* The extraction pipeline: turns are saved, messages are processed for    *)
(* insights, and ContextManager extracts action items from a response.     *)
(* Each LLM request either raises or returns a parsed response.            *)
(***************************************************************************)
InsightItem == [category |-> "value", content |-> "x", confidence |-> Frac(4, 5)]

LlmInsightAnswers == {LlmRaises, LlmParsed(<<>>), LlmParsed(<<InsightItem>>)}

LlmActionAnswers == {LlmRaises, LlmParsed(<<>>), LlmParsed(<<[content |-> "walk"]>>)}

LlmTopicAnswers ==
    {LlmRaises, LlmParsed(<<>>),
     LlmParsed(<<[name |-> <<"a">>, relevance |-> Frac(4, 5)]>>),
     LlmParsed(<<[name |-> <<"A">>, relevance |-> Frac(1, 5)],
                 [name |-> <<"a", " ">>, relevance |-> Frac(4, 5)]>>)}

LlmMetricAnswers ==
    {LlmRaises,
     LlmParsed([stress_level |-> {7}, anxiety_level |-> {}, positivity |-> {3},
                activation |-> {}])}

LlmExtractionAnswers(role, content) ==
    [insights : IF role = "user" /\ content # <<>> THEN LlmInsightAnswers ELSE {LlmRaises},
     items : IF role = "assistant" /\ content # <<>> THEN LlmActionAnswers ELSE {LlmRaises},
     topics : IF content # <<>> THEN LlmTopicAnswers ELSE {LlmRaises},
     metrics : IF role = "user" /\ content # <<>> THEN LlmMetricAnswers ELSE {LlmRaises}]

ExtractContents == {<<>>, Short1}

SaveExtractTurn ==
    /\ Len(conversations) < MaxExtractTurns
    /\ \E u \in Users : save_conversation(u, "user", Short1)
    /\ UNCHANGED <<nCalls, firstCall, insightVars, schedVars, auxVars>>

ProcessConversationForInsights ==
    /\ \E u \in Users, role \in Roles, content \in ExtractContents :
          \E llm \in LlmExtractionAnswers(role, content) :
              process_conversation_for_insights(u, role, content, llm, {})
    /\ Len(user_insights') <= MaxExtractRows
    /\ Len(action_items') <= MaxExtractRows
    /\ Len(progress_metrics') <= MaxExtractRows
    /\ Len(topicLog') <= MaxExtractRows
    /\ UNCHANGED <<now, tz, convVars, summaryVars, schedVars, auxVars>>

ExtractActionItems ==
    /\ \E response \in ExtractContents, llm \in LlmActionAnswers :
          extracted' = <<Extraction("response_action_items", response # <<>>, llm,
                                    _extract_action_items(response, llm))>>
    /\ UNCHANGED <<now, tz, convVars, topicVars, summaryVars, schedVars, auxVars,
                   user_insights, action_items, progress_metrics>>

NextExtract == SaveExtractTurn \/ ProcessConversationForInsights \/ ExtractActionItems

SpecExtract == Init /\ [][NextExtract]_vars

(***************************************************************************)
(* The extraction pipeline with a failing store: any of the writes a       *)
(* message's role leads to may raise.                                      *)
(***************************************************************************)
FaultUsers == {"u1"}

SaveOpsOf(role) ==
    IF role = "user"
    THEN SaveOps \ {"save_action_item"}
    ELSE SaveOps \ {"save_user_insight", "save_progress_metric"}

LlmFaultAnswers(role) ==
    [insights : IF role = "user" THEN {LlmRaises, LlmParsed(<<InsightItem>>)} ELSE {LlmRaises},
     items : IF role = "assistant"
             THEN {LlmRaises, LlmParsed(<<[content |-> "walk"]>>)}
             ELSE {LlmRaises},
     topics : {LlmRaises, LlmParsed(<<[name |-> <<"a">>, relevance |-> Frac(4, 5)]>>)},
     metrics : IF role = "user" THEN LlmMetricAnswers ELSE {LlmRaises}]

SaveFaultTurn ==
    /\ Len(conversations) < MaxFaultTurns
    /\ \E u \in FaultUsers : save_conversation(u, "user", Short1)
    /\ UNCHANGED <<nCalls, firstCall, insightVars, schedVars, auxVars>>

ProcessWithFaults ==
    /\ \E u \in FaultUsers, role \in Roles :
          \E llm \in LlmFaultAnswers(role), faults \in SUBSET SaveOpsOf(role) :
              process_conversation_for_insights(u, role, Short1, llm, faults)
    /\ Len(user_insights') <= MaxFaultRows
    /\ Len(action_items') <= MaxFaultRows
    /\ Len(progress_metrics') <= MaxFaultRows
    /\ Len(topicLog') <= MaxFaultRows
    /\ UNCHANGED <<now, tz, convVars, summaryVars, schedVars, auxVars>>

NextExtractFaults == SaveFaultTurn \/ ProcessWithFaults

SpecExtractFaults == Init /\ [][NextExtractFaults]_vars

(***************************************************************************)
(* SummaryScheduler.  threads holds every thread start() has created, with *)
(* its position in _run_scheduler: "test" (about to evaluate               *)
(* `while self.running`), "sweep" (inside _check_all_users), "sleep"       *)
(* (inside time.sleep, until wake) or "dead" (returned).  thread is the    *)
(* index of self.thread, 0 for None.  start() and stop() are called one    *)
(* after the other, from the reruns of one session's script.               *)
(***************************************************************************)
SleepSeconds == 15 * 60

Alive(i) == threads[i].pc # "dead"

AliveThreads == {i \in 1..Len(threads) : Alive(i)}

AlreadyRunning_ByFlag == running

AlreadyRunning == thread # 0 /\ Alive(thread)

(***************************************************************************)
(* SummaryScheduler.start.  restartPending records that start() returned   *)
(* after a stop() and no sweep has begun since.                            *)
(***************************************************************************)
start ==
    /\ IF AlreadyRunning
       THEN /\ schedCall' = [op |-> "start", alive_before |-> AliveThreads # {},
                             created |-> FALSE]
            /\ UNCHANGED <<running, thread, threads>>
       ELSE /\ Len(threads) < MaxThreads
            /\ running' = TRUE
            /\ threads' = Append(threads, [pc |-> "test", wake |-> 0])
            /\ thread' = Len(threads) + 1
            /\ schedCall' = [op |-> "start", alive_before |-> AliveThreads # {},
                             created |-> TRUE]
    /\ restartPending' = (restartPending \/ schedCall.op = "stop")
    /\ UNCHANGED last_check

(***************************************************************************)
(* SummaryScheduler.stop: join(timeout=2.0) outlasts a thread that is      *)
(* about to test the flag, and times out on one that sweeps or sleeps.     *)
(***************************************************************************)
stop ==
    /\ running' = FALSE
    /\ threads' = IF thread # 0 /\ threads[thread].pc = "test"
                  THEN [threads EXCEPT ![thread].pc = "dead"]
                  ELSE threads
    /\ schedCall' = [op |-> "stop", alive_before |-> AliveThreads # {},
                     created |-> FALSE]
    /\ restartPending' = FALSE
    /\ UNCHANGED <<thread, last_check>>

(***************************************************************************)
(* _run_scheduler: the loop test, the sweep, the sleep.                    *)
(***************************************************************************)
ThreadTest(i) ==
    /\ threads[i].pc = "test"
    /\ threads' = [threads EXCEPT ![i].pc = IF running THEN "sweep" ELSE "dead"]
    /\ restartPending' = (restartPending /\ ~running)
    /\ UNCHANGED <<running, thread, last_check, schedCall>>

CheckedRecently(user_id) ==
    \E last_check_time \in last_check[user_id] : LocalNow - last_check_time < Hour

_check_all_users(user_id, llmDaily, llmWeekly) ==
    IF CheckedRecently(user_id)
    THEN /\ gens' = <<>>
         /\ UNCHANGED <<now, tz, convVars, topicVars, summaries, last_check>>
    ELSE /\ generate_summaries(user_id, llmDaily, llmWeekly)
         /\ last_check' = [last_check EXCEPT ![user_id] = {LocalNow}]

ThreadSweep(i) ==
    /\ threads[i].pc = "sweep"
    /\ \E u \in SummaryUsers, llmDaily \in LlmSummaryAnswers, llmWeekly \in LlmSummaryAnswers :
          _check_all_users(u, llmDaily, llmWeekly)
    /\ threads' = [threads EXCEPT ![i] = [pc |-> "sleep", wake |-> now + SleepSeconds]]
    /\ UNCHANGED <<running, thread, schedCall, restartPending>>

ThreadWake(i) ==
    /\ threads[i].pc = "sleep"
    /\ now >= threads[i].wake
    /\ threads' = [threads EXCEPT ![i].pc = "test"]
    /\ UNCHANGED <<running, thread, last_check, schedCall, restartPending>>

(***************************************************************************)
(* The scheduler on its own: start() and stop() calls in any order, the    *)
(* threads' steps, and time passing one sleep period at a time.            *)
(***************************************************************************)
Start ==
    /\ start
    /\ UNCHANGED <<now, tz, convVars, topicVars, summaryVars, insightVars, auxVars>>

Stop ==
    /\ stop
    /\ UNCHANGED <<now, tz, convVars, topicVars, summaryVars, insightVars, auxVars>>

RunTest ==
    /\ \E i \in 1..Len(threads) : ThreadTest(i)
    /\ UNCHANGED <<now, tz, convVars, topicVars, summaryVars, insightVars, auxVars>>

RunSweep ==
    /\ \E i \in 1..Len(threads) : ThreadSweep(i)
    /\ UNCHANGED <<insightVars, auxVars>>

RunWake ==
    /\ \E i \in 1..Len(threads) : ThreadWake(i)
    /\ UNCHANGED <<now, tz, convVars, topicVars, summaryVars, insightVars, auxVars>>

TickSched ==
    /\ now + SleepSeconds <= MaxSchedTicks * SleepSeconds
    /\ now' = now + SleepSeconds
    /\ gens' = <<>>
    /\ UNCHANGED <<tz, convVars, topicVars, summaries, insightVars, schedVars, auxVars>>

NextSched == Start \/ Stop \/ RunTest \/ RunSweep \/ RunWake \/ TickSched

SpecSched == InitSummary /\ [][NextSched]_vars

(***************************************************************************)
(* Store failures.  A fault names the DatabaseManager call that raises     *)
(* while one operation runs ("none": the store works).  A run gives the    *)
(* rows afterwards and whether an exception leaves it.                     *)
(***************************************************************************)
SummaryFaults ==
    {"none", "get_latest_summary", "get_user_profile",
     "get_conversations_for_timeframe", "save_summary"}

Raised(rows) == [rows |-> rows, raised |-> TRUE]

Returned(rows) == [rows |-> rows, raised |-> FALSE]

(***************************************************************************)
(* `except Exception as e: self.logger.error(...)`: the exception is       *)
(* logged and the method returns None.                                     *)
(***************************************************************************)
LogAndReturn(res) == [res EXCEPT !.raised = FALSE]

(***************************************************************************)
(* The body of generate_timeframe_summary's outer try.  A failing read     *)
(* raises at once; a failing save_summary raises for the no-activity       *)
(* document, and for the LLM's document and then for the fallback too.     *)
(***************************************************************************)
TimeframeBody(rows, user_id, timeframe, llm, fault) ==
    IF fault \in {"get_user_profile", "get_conversations_for_timeframe", "save_summary"}
    THEN Raised(rows)
    ELSE Returned(TimeframeRun(rows, user_id, timeframe, llm).rows)

TimeframeOutcome(rows, user_id, timeframe, llm, fault) ==
    LogAndReturn(TimeframeBody(rows, user_id, timeframe, llm, fault))

(***************************************************************************)
(* SummaryScheduler.generate_now: True unless the generation raises.       *)
(***************************************************************************)
generate_now(rows, user_id, timeframe, llm, fault) ==
    LET run == TimeframeOutcome(rows, user_id, timeframe, llm, fault)
    IN  [rows |-> run.rows, ret |-> ~run.raised]

(***************************************************************************)
(* generate_summaries with a store that may fail: get_latest_summary is    *)
(* read outside generate_timeframe_summary, inside generate_summaries' try.*)
(***************************************************************************)
SummariesBody(rows, user_id, llmDaily, llmWeekly, fault) ==
    IF fault = "get_latest_summary"
    THEN Raised(rows)
    ELSE LET rowsD == IF SummaryDue(rows, user_id, "daily")
                      THEN TimeframeOutcome(rows, user_id, "daily", llmDaily, fault).rows
                      ELSE rows
             rowsW == IF SummaryDue(rowsD, user_id, "weekly")
                      THEN TimeframeOutcome(rowsD, user_id, "weekly", llmWeekly, fault).rows
                      ELSE rowsD
         IN  Returned(rowsW)

SummariesOutcome(rows, user_id, llmDaily, llmWeekly, fault) ==
    LogAndReturn(SummariesBody(rows, user_id, llmDaily, llmWeekly, fault))

(***************************************************************************)
(* _check_all_users over every row of the users table.  st carries the     *)
(* summary rows, last_check, the log of the sweep and whether an exception *)
(* has left the loop body, which ends a Python for loop.                   *)
(***************************************************************************)
AllUserIds == <<"u1", "u2">>

CheckedRecentlyIn_QuarterHour(checks, user_id) ==
    \E last_check_time \in checks[user_id] : LocalNow - last_check_time < SleepSeconds

CheckedRecentlyIn(checks, user_id) ==
    \E last_check_time \in checks[user_id] : LocalNow - last_check_time < Hour

CheckUser_Unprotected(st, user_id, llmDaily, llmWeekly, fault) ==
    IF CheckedRecentlyIn(st.last_check, user_id)
    THEN [st EXCEPT !.log = Append(@, [user_id |-> user_id, due |-> FALSE,
                                       invoked |-> FALSE, failed |-> FALSE])]
    ELSE [rows |-> SummariesBody(st.rows, user_id, llmDaily, llmWeekly, fault).rows,
          last_check |-> IF fault = "none"
                         THEN [st.last_check EXCEPT ![user_id] = {LocalNow}]
                         ELSE st.last_check,
          log |-> Append(st.log, [user_id |-> user_id, due |-> TRUE, invoked |-> TRUE,
                                  failed |-> fault # "none"]),
          raised |-> fault # "none"]

CheckUser(st, user_id, llmDaily, llmWeekly, fault) ==
    IF CheckedRecentlyIn(st.last_check, user_id)
    THEN [st EXCEPT !.log = Append(@, [user_id |-> user_id, due |-> FALSE,
                                       invoked |-> FALSE, failed |-> FALSE])]
    ELSE LET run == SummariesOutcome(st.rows, user_id, llmDaily, llmWeekly, fault)
         IN  [rows |-> run.rows,
              last_check |-> IF run.raised
                             THEN st.last_check
                             ELSE [st.last_check EXCEPT ![user_id] = {LocalNow}],
              log |-> Append(st.log, [user_id |-> user_id, due |-> TRUE, invoked |-> TRUE,
                                      failed |-> fault # "none"]),
              raised |-> FALSE]

RECURSIVE CheckUsers(_, _, _, _, _)
CheckUsers(st, users, llmDaily, llmWeekly, faults) ==
    IF users = <<>> \/ st.raised
    THEN st
    ELSE CheckUsers(CheckUser(st, Head(users), llmDaily, llmWeekly, faults[Head(users)]),
                    Tail(users), llmDaily, llmWeekly, faults)

(***************************************************************************)
(* Sweeps over two users with a store that fails for any of them, turns    *)
(* being saved and time passing half an hour at a time.                    *)
(***************************************************************************)
SweepFaults == {"none", "get_latest_summary", "save_summary"}

SweepStep == 2 * SleepSeconds

Sweep ==
    /\ \E llmDaily \in LlmSummaryAnswers, llmWeekly \in LlmSummaryAnswers,
          faults \in [Users -> SweepFaults] :
          LET res == CheckUsers([rows |-> summaries, last_check |-> last_check,
                                 log |-> <<>>, raised |-> FALSE],
                                AllUserIds, llmDaily, llmWeekly, faults)
          IN  /\ summaries' = res.rows
              /\ last_check' = res.last_check
              /\ swept' = res.log
    /\ gens' = <<>>
    /\ UNCHANGED <<now, tz, convVars, topicVars, insightVars,
                   running, thread, threads, schedCall, restartPending,
                   lockHolder, storeOp, extraVars, ctxVars, ghostVars>>

TickSweep ==
    /\ now + SweepStep <= MaxSweepTicks * SweepStep
    /\ now' = now + SweepStep
    /\ UNCHANGED <<tz, convVars, topicVars, summaryVars, insightVars, schedVars, auxVars>>

NextSweep == SaveTurn \/ Sweep \/ TickSweep

SpecSweep == InitSummary /\ [][NextSweep]_vars

(***************************************************************************)
(* The persistence mutex.  Every DatabaseManager object has its own Lock   *)
(* (database.py:14) and opens a connection to the same file per call.      *)
(* A browser session's script creates one DatabaseManager                  *)
(* (st.session_state.db), shared with its MemoryProcessor and its          *)
(* SummaryScheduler; ContextManager creates a second one for itself.       *)
(* A flow runs store operations one at a time: it takes the lock of the    *)
(* object it calls, runs the SQL, and releases the lock;                   *)
(* _get_all_user_ids runs its SQL without taking any lock.                 *)
(* StoreCalls(f): the calls flow f makes, as <<operation, object, whether  *)
(* the operation takes the object's lock>>.                                *)
(***************************************************************************)
StoreCalls(f) ==
    CASE f = "foreground" ->
            {<<"save_conversation", "context_manager.db", TRUE>>,
             <<"update_or_create_topic", "context_manager.db", TRUE>>,
             <<"save_user_insight", "context_manager.db", TRUE>>,
             <<"get_conversation_history", "session.db", TRUE>>,
             <<"get_latest_summary", "session.db", TRUE>>}
      [] f = "scheduler" ->
            {<<"_get_all_user_ids", "session.db", FALSE>>,
             <<"get_latest_summary", "session.db", TRUE>>,
             <<"get_conversations_for_timeframe", "session.db", TRUE>>,
             <<"save_summary", "session.db", TRUE>>}
      [] f = "foreground2" ->
            {<<"authenticate_user", "session2.db", TRUE>>,
             <<"get_user_profile", "session2.db", TRUE>>,
             <<"update_codex_vitae", "session2.db", TRUE>>,
             <<"save_conversation", "session2.db", TRUE>>}

InStore(f) == storeOp[f].op # "idle"

EnterStore(f) ==
    /\ ~InStore(f)
    /\ \E call \in StoreCalls(f) :
          /\ call[3] => lockHolder[call[2]] = "none"
          /\ lockHolder' = IF call[3]
                           THEN [lockHolder EXCEPT ![call[2]] = f]
                           ELSE lockHolder
          /\ storeOp' = [storeOp EXCEPT ![f] =
                            [op |-> call[1], db |-> call[2], locked |-> call[3]]]

LeaveStore(f) ==
    /\ InStore(f)
    /\ lockHolder' = IF storeOp[f].locked
                     THEN [lockHolder EXCEPT ![storeOp[f].db] = "none"]
                     ELSE lockHolder
    /\ storeOp' = [storeOp EXCEPT ![f] = Idle]

Enter ==
    /\ \E f \in Flows : EnterStore(f)
    /\ UNCHANGED <<now, tz, convVars, topicVars, summaryVars, insightVars, schedVars, swept,
                   ctxVars, ghostVars, extraVars>>

Leave ==
    /\ \E f \in Flows : LeaveStore(f)
    /\ UNCHANGED <<now, tz, convVars, topicVars, summaryVars, insightVars, schedVars, swept,
                   ctxVars, ghostVars, extraVars>>

NextLock == Enter \/ Leave

SpecLock == Init /\ [][NextLock]_vars

(***************************************************************************)
(* DatabaseManager.update_action_item_status: the UPDATE writes the status *)
(* it is given to the row with the id, and completed_at when one is given  *)
(* (an empty set stands for None).  The result is rowcount > 0.            *)
(***************************************************************************)
update_action_item_status(rows, item_id, status, completed_at) ==
    [rows |-> [i \in 1..Len(rows) |->
                  IF rows[i].id # item_id THEN rows[i]
                  ELSE IF completed_at # {}
                       THEN [rows[i] EXCEPT !.status = status,
                                            !.completed_at = completed_at]
                       ELSE [rows[i] EXCEPT !.status = status]],
     ret |-> \E i \in 1..Len(rows) : rows[i].id = item_id]

(***************************************************************************)
(* ContextManager.mark_action_completed                                    *)
(***************************************************************************)
mark_action_completed(rows, action_id) ==
    update_action_item_status(rows, action_id, "completed", {LocalNow})

(***************************************************************************)
(* The action items on their own: items are saved, their status is         *)
(* updated through both operations, and time passes.                       *)
(***************************************************************************)
ActionStatuses == {"pending", "completed"}

ActionStep == Hour

SaveActionItem ==
    /\ Len(action_items) < MaxActionItems
    /\ action_items' = ActionItemRows(action_items, "u1",
                           [raised |-> FALSE, value |-> <<[content |-> "walk"]>>])
    /\ UNCHANGED <<now, tz, convVars, topicVars, summaryVars, schedVars, auxVars,
                   user_insights, progress_metrics, extracted>>

UpdateActionItemStatus ==
    /\ \E item_id \in 1..MaxActionItems, status \in ActionStatuses,
          completed_at \in {{}, {LocalNow}} :
          action_items' =
              update_action_item_status(action_items, item_id, status, completed_at).rows
    /\ UNCHANGED <<now, tz, convVars, topicVars, summaryVars, schedVars, auxVars,
                   user_insights, progress_metrics, extracted>>

MarkActionCompleted ==
    /\ \E action_id \in 1..MaxActionItems :
          action_items' = mark_action_completed(action_items, action_id).rows
    /\ UNCHANGED <<now, tz, convVars, topicVars, summaryVars, schedVars, auxVars,
                   user_insights, progress_metrics, extracted>>

TickAction ==
    /\ now + ActionStep <= MaxActionTicks * ActionStep
    /\ now' = now + ActionStep
    /\ UNCHANGED <<tz, convVars, topicVars, summaryVars, insightVars, schedVars, auxVars>>

NextAction == SaveActionItem \/ UpdateActionItemStatus \/ MarkActionCompleted \/ TickAction

SpecAction == Init /\ [][NextAction]_vars

(***************************************************************************)
(* The Context Assembler.  codex_vitae is the users.codex_vitae column, a  *)
(* dict; formatted the lines of the last block format_context_for_llm      *)
(* produced, each with its f-string and the values put into it.            *)
(***************************************************************************)
LastN(seq, n) ==
    IF Len(seq) <= n THEN seq ELSE SubSeq(seq, Len(seq) - n + 1, Len(seq))

FirstN(seq, n) == IF Len(seq) <= n THEN seq ELSE SubSeq(seq, 1, n)

Reverse(seq) == [i \in 1..Len(seq) |-> seq[Len(seq) + 1 - i]]

FracLess(a, b) == a[1] * b[2] < b[1] * a[2]

(***************************************************************************)
(* DatabaseManager.update_codex_vitae / get_user_profile                   *)
(***************************************************************************)
update_codex_vitae(codex, question_key, answer) ==
    [k \in (DOMAIN codex) \cup {question_key} |->
        IF k = question_key THEN answer ELSE codex[k]]

get_user_profile(user_id) ==
    [codex_vitae |-> codex_vitae[user_id], coach_name |-> "", coach_vibes |-> ""]

(***************************************************************************)
(* DatabaseManager.get_user_insights: ORDER BY confidence DESC,            *)
(* created_at DESC.  Rows are created in the order of their ids.           *)
(***************************************************************************)
MinConfidence == Frac(7, 10)

RECURSIVE InsightsInOrder(_, _)
InsightsInOrder(rows, S) ==
    IF S = {} THEN <<>>
    ELSE LET first == CHOOSE i \in S : \A j \in S \ {i} :
                          \/ FracLess(rows[j].confidence, rows[i].confidence)
                          \/ rows[j].confidence = rows[i].confidence /\ j < i
         IN  <<rows[first]>> \o InsightsInOrder(rows, S \ {first})

get_user_insights(user_id, min_confidence) ==
    InsightsInOrder(user_insights,
        {i \in 1..Len(user_insights) :
            /\ user_insights[i].user_id = user_id
            /\ ~FracLess(user_insights[i].confidence, min_confidence)})

(***************************************************************************)
(* DatabaseManager.get_active_topics: ORDER BY relevance_score *            *)
(* mention_count DESC, last_mentioned DESC LIMIT 5.  Every row has been    *)
(* mentioned in the last 7 days; rows of equal score come in either order. *)
(***************************************************************************)
TopicLimit == 5

TopicScore(row) == <<row.relevance_score[1] * row.mention_count, row.relevance_score[2]>>

get_active_topics(user_id, limit) ==
    LET S == {i \in 1..Len(topics) : topics[i].user_id = user_id}
        orders == {p \in [1..Cardinality(S) -> S] :
                      /\ \A i, j \in 1..Cardinality(S) : i # j => p[i] # p[j]
                      /\ \A i, j \in 1..Cardinality(S) :
                            i < j => ~FracLess(TopicScore(topics[p[i]]),
                                               TopicScore(topics[p[j]]))}
    IN  {FirstN([i \in 1..Cardinality(S) |->
                    [name |-> topics[p[i]].name,
                     relevance |-> topics[p[i]].relevance_score,
                     mention_count |-> topics[p[i]].mention_count]], limit) :
            p \in orders}

(***************************************************************************)
(* DatabaseManager.get_pending_action_items: ORDER BY created_at DESC,     *)
(* no LIMIT.                                                               *)
(***************************************************************************)
get_pending_action_items(user_id) ==
    Reverse(SelectSeq(action_items,
                LAMBDA row : row.user_id = user_id /\ row.status = "pending"))

(***************************************************************************)
(* DatabaseManager.get_metric_history, as "the metric has a row".          *)
(***************************************************************************)
get_metric_history(user_id, metric_name) ==
    SelectSeq(progress_metrics,
        LAMBDA row : row.user_id = user_id /\ row.metric_name = metric_name)

(***************************************************************************)
(* MemoryProcessor._get_immediate_context                                  *)
(***************************************************************************)
_get_immediate_context(user_id) ==
    LET recent_messages == LastN(get_conversation_history(user_id), 10)
    IN  [recent_messages |-> recent_messages, message_count |-> Len(recent_messages)]

(***************************************************************************)
(* MemoryProcessor._get_user_profile.  grouped_insights is a dict in       *)
(* insertion order: the categories in the order of their first insight,    *)
(* each with the contents of its insights.                                 *)
(***************************************************************************)
RECURSIVE CategoriesOf(_)
CategoriesOf(insights) ==
    IF insights = <<>> THEN <<>>
    ELSE LET before == CategoriesOf(SubSeq(insights, 1, Len(insights) - 1))
             category == insights[Len(insights)].category
         IN  IF \E i \in 1..Len(before) : before[i] = category
             THEN before
             ELSE Append(before, category)

_get_user_profile(user_id) ==
    LET profile == get_user_profile(user_id)
        insights == get_user_insights(user_id, MinConfidence)
        categories == CategoriesOf(insights)
        contents(category) ==
            LET of == SelectSeq(insights, LAMBDA row : row.category = category)
            IN  [i \in 1..Len(of) |-> of[i].content]
    IN  [codex_vitae |-> profile.codex_vitae,
         insights |-> [i \in 1..Len(categories) |->
                          [category |-> categories[i], items |-> contents(categories[i])]],
         coach_style |-> [name |-> profile.coach_name, vibes |-> profile.coach_vibes]]

(***************************************************************************)
(* MemoryProcessor._analyze_current_query.  The result is Optional: {} for *)
(* None (message.parsed of a refusal), {analysis} otherwise.               *)
(***************************************************************************)
DefaultAnalysis ==
    [primary_intent |-> "unknown", emotional_state |-> "neutral", urgency_level |-> 5,
     topics |-> <<>>, potential_triggers |-> "none detected"]

_analyze_current_query(message, llm) ==
    IF message = <<>> THEN {DefaultAnalysis}
    ELSE IF llm.raised THEN {DefaultAnalysis}
    ELSE llm.parsed

(***************************************************************************)
(* MemoryProcessor._get_progress_metrics                                   *)
(***************************************************************************)
_get_progress_metrics(user_id) ==
    [action_items |-> get_pending_action_items(user_id),
     emotional_metrics |->
         {MetricFields[i] : i \in {k \in 1..Len(MetricFields) :
                                      get_metric_history(user_id, MetricFields[k]) # <<>>}}]

(***************************************************************************)
(* MemoryProcessor.get_comprehensive_context: the contexts the store       *)
(* allows (one for each order of the active topics).                       *)
(***************************************************************************)
get_comprehensive_context(current_message, user_id, llm) ==
    {[immediate_context |-> _get_immediate_context(user_id),
      user_profile |-> _get_user_profile(user_id),
      current_query_analysis |-> _analyze_current_query(current_message, llm),
      active_topics |-> active,
      progress_metrics |-> _get_progress_metrics(user_id)] :
        active \in get_active_topics(user_id, TopicLimit)}

(***************************************************************************)
(* Python's `key in obj`.  A dict holds its keys.  MessageAnalysis is a    *)
(* pydantic model: it defines __iter__, which yields (name, value) pairs,  *)
(* and no __contains__, so `in` compares the key (here a 1-tuple) with     *)
(* each pair.                                                              *)
(***************************************************************************)
DictContains(key, dict) == key \in DOMAIN dict

ModelContains(key, obj) == <<key>> \in {<<name, obj[name]>> : name \in DOMAIN obj}

(***************************************************************************)
(* MemoryProcessor.format_context_for_llm: the lines joined by "\n".       *)
(***************************************************************************)
Line(text, args) == [text |-> text, args |-> args]

Blank == Line("", <<>>)

PriorityKeys ==
    <<"core_values", "reactivity_triggers", "burnout_warning_signs", "joy_triggers">>

AnalysisKeys == <<"primary_intent", "emotional_state", "potential_triggers">>

AnalysisLabel(key) ==
    CASE key = "primary_intent" -> "Intent: {}"
      [] key = "emotional_state" -> "Emotional State: {}"
      [] key = "potential_triggers" -> "Potential Triggers: {}"

RECURSIVE Concat(_)
Concat(seqs) == IF seqs = <<>> THEN <<>> ELSE Head(seqs) \o Concat(Tail(seqs))

format_context_for_llm(context) ==
    LET messages == context.immediate_context.recent_messages
        insights == context.user_profile.insights
        codex == context.user_profile.codex_vitae
        analysis == context.current_query_analysis
        active == context.active_topics
        items == context.progress_metrics.action_items
        recent == LastN(messages, 3)
    IN  (IF messages # <<>>
         THEN <<Line("RECENT CONVERSATION:", <<>>)>>
              \o [i \in 1..Len(recent) |->
                     Line("{role}: {content}", <<recent[i].role, recent[i].content>>)]
              \o <<Blank>>
         ELSE <<>>)
        \o (IF insights # <<>>
            THEN <<Line("USER INSIGHTS:", <<>>)>>
                 \o Concat([i \in 1..Len(insights) |->
                        IF insights[i].items # <<>>
                        THEN <<Line("{category}: {items}",
                                    <<insights[i].category, FirstN(insights[i].items, 3)>>)>>
                        ELSE <<>>])
                 \o <<Blank>>
            ELSE <<>>)
        \o (IF DOMAIN codex # {}
            THEN <<Line("FROM CODEX VITAE:", <<>>)>>
                 \o Concat([i \in 1..Len(PriorityKeys) |->
                        IF DictContains(PriorityKeys[i], codex) /\ codex[PriorityKeys[i]] # ""
                        THEN <<Line("{key}: {answer}",
                                    <<PriorityKeys[i], codex[PriorityKeys[i]]>>)>>
                        ELSE <<>>])
                 \o <<Blank>>
            ELSE <<>>)
        \o (IF analysis # {}
            THEN LET a == CHOOSE x \in analysis : TRUE
                 IN  <<Line("CURRENT QUERY ANALYSIS:", <<>>)>>
                     \o Concat([i \in 1..Len(AnalysisKeys) |->
                            IF ModelContains(AnalysisKeys[i], a)
                            THEN <<Line(AnalysisLabel(AnalysisKeys[i]), <<a[AnalysisKeys[i]]>>)>>
                            ELSE <<>>])
                     \o <<Blank>>
            ELSE <<>>)
        \o (IF active # <<>>
            THEN <<Line("ACTIVE TOPICS:", <<>>)>>
                 \o [i \in 1..Len(active) |-> Line("- {name}", <<active[i].name>>)]
                 \o <<Blank>>
            ELSE <<>>)
        \o (IF items # <<>>
            THEN <<Line("ACTION ITEMS:", <<>>)>>
                 \o [i \in 1..Len(items) |-> Line("- {content}", <<items[i].content>>)]
                 \o <<Blank>>
            ELSE <<>>)

(***************************************************************************)
(* The assembler over a store that fills up: turns, insights, topics and   *)
(* action items are saved, Codex Vitae answers are given, an action item   *)
(* is completed, and a block is assembled for a message.                   *)
(***************************************************************************)
ContextUser == "u1"

CodexQuestions == {"core_values", "theme_for_year"}

CodexAnswers == {"", "x"}

ContextInsights ==
    {[category |-> "value", content |-> "x", confidence |-> Frac(4, 5)],
     [category |-> "challenge", content |-> "y", confidence |-> Frac(3, 5)]}

LlmAnalysisAnswers ==
    {LlmRaises, LlmParsed({}),
     LlmParsed({[primary_intent |-> "vent", emotional_state |-> "sad", urgency_level |-> 7,
                 topics |-> <<>>, potential_triggers |-> "work"]})}

SaveContextTurn ==
    /\ Len(conversations) < MaxContextTurns
    /\ save_conversation(ContextUser, "user", Short1)
    /\ formatted' = <<>>
    /\ UNCHANGED <<nCalls, firstCall, insightVars, schedVars,
                   swept, lockHolder, storeOp, extraVars, ghostVars, codex_vitae>>

SaveContextInsight ==
    /\ Len(user_insights) < MaxContextInsights
    /\ \E item \in ContextInsights :
          user_insights' = InsightRows(user_insights, ContextUser,
                               [raised |-> FALSE, value |-> <<item>>])
    /\ formatted' = <<>>
    /\ UNCHANGED <<now, tz, convVars, topicVars, summaryVars, schedVars,
                   action_items, progress_metrics, extracted,
                   swept, lockHolder, storeOp, extraVars, ghostVars, codex_vitae>>

SaveContextTopic ==
    /\ Len(topicLog) < MaxContextTopics
    /\ update_or_create_topic(ContextUser, <<"a">>, Frac(4, 5))
    /\ formatted' = <<>>
    /\ UNCHANGED <<insightVars, schedVars,
                   swept, lockHolder, storeOp, extraVars, ghostVars, codex_vitae>>

SavePendingItem ==
    /\ Len(action_items) < MaxPendingItems
    /\ action_items' = ActionItemRows(action_items, ContextUser,
                           [raised |-> FALSE, value |-> <<[content |-> "walk"]>>])
    /\ formatted' = <<>>
    /\ UNCHANGED <<now, tz, convVars, topicVars, summaryVars, schedVars,
                   user_insights, progress_metrics, extracted,
                   swept, lockHolder, storeOp, extraVars, ghostVars, codex_vitae>>

CompleteFirstItem ==
    /\ action_items # <<>>
    /\ action_items' = mark_action_completed(action_items, 1).rows
    /\ formatted' = <<>>
    /\ UNCHANGED <<now, tz, convVars, topicVars, summaryVars, schedVars,
                   user_insights, progress_metrics, extracted,
                   swept, lockHolder, storeOp, extraVars, ghostVars, codex_vitae>>

UpdateCodexVitae ==
    /\ \E question_key \in CodexQuestions, answer \in CodexAnswers :
          codex_vitae' = [codex_vitae EXCEPT ![ContextUser] =
                             update_codex_vitae(@, question_key, answer)]
    /\ formatted' = <<>>
    /\ UNCHANGED <<now, tz, convVars, topicVars, summaryVars, insightVars, schedVars,
                   swept, lockHolder, storeOp, extraVars, ghostVars>>

AssembleContext ==
    /\ \E message \in {<<>>, Short1}, llm \in LlmAnalysisAnswers :
          \E context \in get_comprehensive_context(message, ContextUser, llm) :
              formatted' = format_context_for_llm(context)
    /\ UNCHANGED <<now, tz, convVars, topicVars, summaryVars, insightVars, schedVars,
                   swept, lockHolder, storeOp, extraVars, ghostVars, codex_vitae>>

NextContext ==
    \/ SaveContextTurn \/ SaveContextInsight \/ SaveContextTopic \/ SavePendingItem
    \/ CompleteFirstItem \/ UpdateCodexVitae \/ AssembleContext

SpecContext == Init /\ [][NextContext]_vars

(***************************************************************************)
(* The three operations over a store that may fail.  outcome records, for  *)
(* the last operation, whether a store call raised inside it and whether   *)
(* its caller saw that (an exception or a False result).                   *)
(***************************************************************************)
FailureFaults == SummaryFaults \ {"get_latest_summary"}

GenerateTimeframeSummaryFails ==
    /\ Len(summaries) < MaxFailureRows
    /\ \E u \in SummaryUsers, timeframe \in Timeframes, llm \in LlmSummaryAnswers,
          fault \in FailureFaults :
          LET body == TimeframeBody(summaries, u, timeframe, llm, fault)
              run == TimeframeOutcome(summaries, u, timeframe, llm, fault)
          IN  /\ summaries' = run.rows
              /\ outcome' = [op |-> "generate_timeframe_summary",
                             store_raised |-> body.raised, surfaced |-> run.raised]
    /\ gens' = <<>>
    /\ UNCHANGED <<now, tz, convVars, topicVars, insightVars, schedVars,
                   swept, lockHolder, storeOp, extraVars, ctxVars, turn>>

GenerateNowFails ==
    /\ Len(summaries) < MaxFailureRows
    /\ \E u \in SummaryUsers, timeframe \in Timeframes, llm \in LlmSummaryAnswers,
          fault \in FailureFaults :
          LET body == TimeframeBody(summaries, u, timeframe, llm, fault)
              res == generate_now(summaries, u, timeframe, llm, fault)
          IN  /\ summaries' = res.rows
              /\ outcome' = [op |-> "generate_now",
                             store_raised |-> body.raised, surfaced |-> ~res.ret]
    /\ gens' = <<>>
    /\ UNCHANGED <<now, tz, convVars, topicVars, insightVars, schedVars,
                   swept, lockHolder, storeOp, extraVars, ctxVars, turn>>

ProcessFails ==
    /\ \E u \in FaultUsers, role \in Roles :
          \E llm \in LlmFaultAnswers(role), faults \in SUBSET SaveOpsOf(role) :
              process_conversation_for_insights(u, role, Short1, llm, faults)
    /\ Len(user_insights') <= MaxFailureRows
    /\ Len(action_items') <= MaxFailureRows
    /\ Len(progress_metrics') <= MaxFailureRows
    /\ Len(topicLog') <= MaxFailureRows
    /\ outcome' = [op |-> "process_conversation_for_insights",
                   store_raised |-> \E k \in 1..Len(extracted') :
                                       extracted'[k].save_raised /\ extracted'[k].count > 0,
                   surfaced |-> \E k \in 1..Len(extracted') : extracted'[k].escaped]
    /\ UNCHANGED <<now, tz, convVars, summaryVars, schedVars,
                   swept, lockHolder, storeOp, extraVars, ctxVars, turn>>

NextFailure ==
    \/ SaveFaultTurn \/ ProcessFails
    \/ GenerateTimeframeSummaryFails \/ GenerateNowFails

SpecFailure == Init /\ [][NextFailure]_vars

(***************************************************************************)
(* ContextManager.get_ai_response, one call after the other.  turn holds   *)
(* the position of the flow ("idle" before a call, "done" when it has      *)
(* returned), the number of the turn, the id of the message saved last,    *)
(* and the methods of DatabaseManager and MemoryProcessor called so far.   *)
(* SchedulerCheck is the scheduler thread's generate_summaries call.       *)
(***************************************************************************)
TurnUser == "u1"

TurnMessage == Short1

TurnResponse == Short2

GeneralInquiry ==
    <<"g", "e", "n", "e", "r", "a", "l", " ", "i", "n", "q", "u", "i", "r", "y">>

DefaultRelevance == Frac(8, 10)

LlmMessageAnalysisAnswers ==
    {LlmRaises,
     LlmParsed([primary_intent |-> "vent", emotional_state |-> "sad", urgency_level |-> 7,
                topics |-> <<>>, potential_triggers |-> "work"]),
     LlmParsed([primary_intent |-> "vent", emotional_state |-> "sad", urgency_level |-> 7,
                topics |-> << <<"a">> >>, potential_triggers |-> "work"])}

LlmChatAnswers == {LlmRaises, LlmParsed(TurnResponse)}

(***************************************************************************)
(* ContextManager._analyze_message: {} for the empty dict.                 *)
(***************************************************************************)
_analyze_message(message, llm) ==
    IF message = <<>> THEN {}
    ELSE IF llm.raised
         THEN {[primary_intent |-> "unclear", emotional_state |-> "neutral",
                urgency_level |-> 5, topics |-> <<GeneralInquiry>>,
                potential_triggers |-> "none detected"]}
         ELSE {llm.parsed}

Called(pc, calls) == [turn EXCEPT !.pc = pc, !.calls = @ \o calls]

(***************************************************************************)
(* get_ai_response -> process_user_message -> _save_message                *)
(***************************************************************************)
SaveUserMessage ==
    /\ turn.pc = "idle"
    /\ turn.n < MaxTurns
    /\ save_conversation(TurnUser, "user", TurnMessage)
    /\ turn' = [pc |-> "analyze", n |-> turn.n + 1, user_id |-> TurnUser,
                message_id |-> lastCall'.ret,
                calls |-> <<"get_current_session_id", "save_conversation">>]
    /\ UNCHANGED <<nCalls, firstCall, insightVars, schedVars,
                   swept, lockHolder, storeOp, extraVars, ctxVars, outcome>>

(***************************************************************************)
(* process_user_message: _analyze_message, save_message_analysis and the   *)
(* topics of the analysis                                                  *)
(***************************************************************************)
AnalyzeMessage ==
    /\ turn.pc = "analyze"
    /\ \E llm \in LlmMessageAnalysisAnswers :
          LET result == _analyze_message(TurnMessage, llm)
              found == IF result = {} THEN <<>>
                       ELSE LET a == CHOOSE x \in result : TRUE
                            IN  [i \in 1..Len(a.topics) |->
                                    [name |-> a.topics[i], relevance |-> DefaultRelevance]]
          IN  /\ topics' \in TopicRows(topics, TurnUser, found)
              /\ topicLog' = topicLog \o [i \in 1..Len(found) |->
                                 [user_id |-> TurnUser, name |-> found[i].name,
                                  relevance |-> found[i].relevance]]
              /\ turn' = Called("user_insights",
                             (IF result = {} THEN <<>> ELSE <<"save_message_analysis">>)
                             \o [i \in 1..Len(found) |-> "update_or_create_topic"])
              /\ analysed' = [failed |-> llm.raised, used |-> result, topics |-> found]
    /\ UNCHANGED <<now, tz, convVars, summaryVars, insightVars, schedVars,
                   swept, lockHolder, storeOp, historyVars, hourlyVars, mutexVars, laterVars,
                   ctxVars, outcome>>

(***************************************************************************)
(* process_user_message: process_conversation_for_insights (user)          *)
(***************************************************************************)
ProcessUserInsights ==
    /\ turn.pc = "user_insights"
    /\ \E llm \in LlmFaultAnswers("user") :
          process_conversation_for_insights(TurnUser, "user", TurnMessage, llm, {})
    /\ turn' = Called("context", <<"process_conversation_for_insights">>)
    /\ UNCHANGED <<now, tz, convVars, summaryVars, schedVars,
                   swept, lockHolder, storeOp, extraVars, ctxVars, outcome>>

(***************************************************************************)
(* get_ai_response: the context block, the profile and the history         *)
(***************************************************************************)
BuildContext ==
    /\ turn.pc = "context"
    /\ \E llm \in LlmAnalysisAnswers :
          \E context \in get_comprehensive_context(TurnMessage, TurnUser, llm) :
              formatted' = format_context_for_llm(context)
    /\ turn' = Called("respond",
                   <<"get_comprehensive_context", "format_context_for_llm",
                     "get_user_profile", "get_conversation_history">>)
    /\ UNCHANGED <<now, tz, convVars, topicVars, summaryVars, insightVars, schedVars,
                   swept, lockHolder, storeOp, extraVars, codex_vitae, outcome>>

(***************************************************************************)
(* get_ai_response: the chat completion; a failure ends the call, a        *)
(* response goes to process_ai_response, which saves it.                   *)
(***************************************************************************)
Respond ==
    /\ turn.pc = "respond"
    /\ \E llm \in LlmChatAnswers :
          IF llm.raised
          THEN /\ turn' = Called("done", <<>>)
               /\ UNCHANGED <<now, tz, conversations, lastCall, topicVars, summaryVars>>
          ELSE /\ save_conversation(TurnUser, "assistant", llm.parsed)
               /\ turn' = [Called("action_items",
                                  <<"get_current_session_id", "save_conversation">>)
                              EXCEPT !.message_id = lastCall'.ret]
    /\ UNCHANGED <<nCalls, firstCall, insightVars, schedVars,
                   swept, lockHolder, storeOp, extraVars, ctxVars, outcome>>

(***************************************************************************)
(* process_ai_response: _extract_action_items and save_action_item         *)
(***************************************************************************)
SaveResponseActionItems ==
    /\ turn.pc = "action_items"
    /\ \E llm \in LlmActionAnswers :
          LET items == _extract_action_items(TurnResponse, llm).value
              rows == ActionItemRows(action_items, TurnUser,
                          [raised |-> FALSE,
                           value |-> [i \in 1..Len(items) |-> [content |-> items[i]]]])
          IN  /\ action_items' =
                     [i \in 1..Len(rows) |->
                         IF i <= Len(action_items) THEN rows[i]
                         ELSE [rows[i] EXCEPT !.source_message_id = turn.message_id]]
              /\ turn' = Called("ai_insights",
                             [i \in 1..Len(items) |-> "save_action_item"])
    /\ UNCHANGED <<now, tz, convVars, topicVars, summaryVars, schedVars,
                   user_insights, progress_metrics, extracted,
                   swept, lockHolder, storeOp, extraVars, ctxVars, outcome>>

(***************************************************************************)
(* process_ai_response: process_conversation_for_insights (assistant);     *)
(* get_ai_response returns the response.                                   *)
(***************************************************************************)
ProcessAiInsights ==
    /\ turn.pc = "ai_insights"
    /\ \E llm \in LlmFaultAnswers("assistant") :
          process_conversation_for_insights(TurnUser, "assistant", TurnResponse, llm, {})
    /\ turn' = Called("done", <<"process_conversation_for_insights">>)
    /\ UNCHANGED <<now, tz, convVars, summaryVars, schedVars,
                   swept, lockHolder, storeOp, extraVars, ctxVars, outcome>>

NextMessage ==
    /\ turn.pc = "done"
    /\ turn' = [turn EXCEPT !.pc = "idle"]
    /\ UNCHANGED <<now, tz, convVars, topicVars, summaryVars, insightVars, schedVars,
                   swept, lockHolder, storeOp, extraVars, ctxVars, outcome>>

SchedulerCheck ==
    /\ \E llmDaily \in LlmSummaryAnswers, llmWeekly \in LlmSummaryAnswers :
          generate_summaries(TurnUser, llmDaily, llmWeekly)
    /\ UNCHANGED <<insightVars, schedVars, auxVars>>

NextTurn ==
    \/ SaveUserMessage \/ AnalyzeMessage \/ ProcessUserInsights \/ BuildContext
    \/ Respond \/ SaveResponseActionItems \/ ProcessAiInsights \/ NextMessage
    \/ SchedulerCheck

SpecTurn == Init /\ [][NextTurn]_vars

(***************************************************************************)
(* Concurrent writers.  Each UI session has a DatabaseManager of its own,  *)
(* hence a lock of its own, so the SELECT and the INSERT of one            *)
(* save_conversation call can have another session's statements between    *)
(* them.  saving holds each session's call between its two statements:     *)
(* the arguments and the id of the duplicate the SELECT found (0: none).   *)
(* history is the list get_conversation_history returned last.             *)
(***************************************************************************)
HistoryUser == "u1"

HistoryStep == 1

HistoryContents == {Short1, Short3, Short4}

(***************************************************************************)
(* save_conversation up to the end of the duplicate loop                   *)
(***************************************************************************)
SelectRecent(s) ==
    /\ saving[s].pc = "idle"
    /\ Len(conversations) < MaxHistoryRows
    /\ \E content \in HistoryContents :
          \E R \in RecentMessages(RecentWindow(HistoryUser, "user")) :
              LET matches == {i \in R : IsDuplicate(content, conversations[i].content)}
              IN  \E dup \in IF matches = {} THEN {0}
                             ELSE {conversations[m].id : m \in
                                      {m \in matches : \A k \in matches :
                                          conversations[k].timestamp
                                              <= conversations[m].timestamp}} :
                     saving' = [saving EXCEPT ![s] =
                                   [pc |-> "selected", user_id |-> HistoryUser,
                                    role |-> "user", content |-> content, dup |-> dup]]
    /\ UNCHANGED <<now, tz, convVars, topicVars, summaryVars, insightVars, schedVars,
                   swept, lockHolder, storeOp, ctxVars, ghostVars, history, analysed, hourlyVars, mutexVars, laterVars>>

(***************************************************************************)
(* save_conversation from the INSERT on: datetime('now') is taken when the *)
(* INSERT runs.                                                            *)
(***************************************************************************)
InsertOrReturn(s) ==
    /\ saving[s].pc = "selected"
    /\ conversations' =
          IF saving[s].dup # 0 THEN conversations
          ELSE Append(conversations,
                   [id |-> Len(conversations) + 1, user_id |-> saving[s].user_id,
                    role |-> saving[s].role, content |-> saving[s].content,
                    timestamp |-> now])
    /\ saving' = [saving EXCEPT ![s] = NotSaving]
    /\ UNCHANGED <<now, tz, nCalls, firstCall, lastCall, topicVars, summaryVars,
                   insightVars, schedVars,
                   swept, lockHolder, storeOp, ctxVars, ghostVars, history, analysed, hourlyVars, mutexVars, laterVars>>

(***************************************************************************)
(* DatabaseManager.get_conversation_history: the lists ORDER BY timestamp  *)
(* ASC allows; rows of one second come in an order SQLite does not         *)
(* specify.                                                                *)
(***************************************************************************)
HistoryOrders(user_id) ==
    LET S == {i \in 1..Len(conversations) : conversations[i].user_id = user_id}
        n == Cardinality(S)
    IN  {[i \in 1..n |-> conversations[p[i]]] :
            p \in {q \in [1..n -> S] :
                      /\ \A i, j \in 1..n : i # j => q[i] # q[j]
                      /\ \A i, j \in 1..n :
                            i < j => conversations[q[i]].timestamp
                                        <= conversations[q[j]].timestamp}}

Select == \E s \in Sessions : SelectRecent(s)

Insert == \E s \in Sessions : InsertOrReturn(s)

ReadHistory ==
    /\ history' \in HistoryOrders(HistoryUser)
    /\ UNCHANGED <<now, tz, convVars, topicVars, summaryVars, insightVars, schedVars,
                   swept, lockHolder, storeOp, ctxVars, ghostVars, saving, analysed, hourlyVars, mutexVars, laterVars>>

TickHistory ==
    /\ now + HistoryStep <= MaxHistoryTicks * HistoryStep
    /\ now' = now + HistoryStep
    /\ UNCHANGED <<tz, convVars, topicVars, summaryVars, insightVars, schedVars, auxVars>>

NextHistory == Select \/ Insert \/ ReadHistory \/ TickHistory

SpecHistory == Init /\ [][NextHistory]_vars

(***************************************************************************)
(* The scheduler thread over a growing users table: a sweep every quarter  *)
(* of an hour at the earliest, users being created between the sweeps.     *)
(* hourly records the last sweep (the users it listed, last_check before   *)
(* it, the users it invoked generate_summaries for) and, per user, the     *)
(* times of all invocations.                                               *)
(***************************************************************************)
create_user(user_id) ==
    /\ \A i \in 1..Len(users_table) : users_table[i] # user_id
    /\ users_table' = Append(users_table, user_id)
    /\ UNCHANGED hourly

CreateUser ==
    /\ \E u \in Users : create_user(u)
    /\ UNCHANGED <<now, tz, convVars, topicVars, summaryVars, insightVars, schedVars,
                   swept, lockHolder, storeOp, ctxVars, ghostVars, historyVars, analysed,
                   mutexVars, laterVars>>

_get_all_user_ids == users_table

SweepUsersTable ==
    /\ \E llmDaily \in LlmSummaryAnswers, llmWeekly \in LlmSummaryAnswers,
          faults \in [Users -> SweepFaults] :
          LET res == CheckUsers([rows |-> summaries, last_check |-> last_check,
                                 log |-> <<>>, raised |-> FALSE],
                                _get_all_user_ids, llmDaily, llmWeekly, faults)
              invoked == {res.log[i].user_id : i \in {i \in 1..Len(res.log) :
                                                         res.log[i].invoked}}
          IN  /\ summaries' = res.rows
              /\ last_check' = res.last_check
              /\ swept' = res.log
              /\ hourly' = [n |-> 1, at |-> LocalNow, listed |-> _get_all_user_ids,
                            before |-> last_check, invoked |-> invoked,
                            invoked_at |-> [u \in Users |->
                                IF u \in invoked THEN hourly.invoked_at[u] \cup {LocalNow}
                                ELSE hourly.invoked_at[u]]]
    /\ gens' = <<>>
    /\ UNCHANGED <<now, tz, convVars, topicVars, insightVars,
                   running, thread, threads, schedCall, restartPending,
                   lockHolder, storeOp, ctxVars, ghostVars, historyVars, analysed,
                   users_table, mutexVars, laterVars>>

TickHourly ==
    /\ now + SleepSeconds <= MaxHourlyTicks * SleepSeconds
    /\ now' = now + SleepSeconds
    /\ UNCHANGED <<tz, convVars, topicVars, summaryVars, insightVars, schedVars, auxVars>>

NextHourly == CreateUser \/ SweepUsersTable \/ TickHourly

SpecHourly == Init /\ [][NextHourly]_vars

(***************************************************************************)
(* The threads of one browser session and the locks they take.  A method   *)
(* is the sequence of its steps: taking the lock of a DatabaseManager      *)
(* (`with self.lock:`, a threading.Lock, which is not reentrant), running  *)
(* SQL, leaving the with block, calling the LLM service, sleeping.         *)
(* mutex[db] is the thread that holds the lock of db; flow[t] is the       *)
(* method thread t runs and the step it is at: the step it waits to take   *)
(* (acquire), or is inside of (llm, sleep).                                *)
(***************************************************************************)
StepOf(kind, db, op) == [kind |-> kind, db |-> db, op |-> op]

(***************************************************************************)
(* A DatabaseManager method: `with self.lock:` around its SQL.  The        *)
(* mutant leaves the with block only after the caller's next steps.        *)
(***************************************************************************)
WithLock_NoRelease(op, db) ==
    <<StepOf("acquire", db, op), StepOf("sql", db, op)>>

WithLock(op, db) ==
    <<StepOf("acquire", db, op), StepOf("sql", db, op), StepOf("release", db, op)>>

LlmCall(op) == <<StepOf("llm", "none", op)>>

(***************************************************************************)
(* get_all_user_ids opens a connection without the lock.                   *)
(***************************************************************************)
Unlocked(op, db) == <<StepOf("sql", db, op)>>

(***************************************************************************)
(* MemoryProcessor.generate_timeframe_summary: no profile; no              *)
(* conversations; the LLM's summary or, when the LLM fails, the fallback.  *)
(***************************************************************************)
TimeframeSteps(db) ==
    {WithLock("get_user_profile", db),
     WithLock("get_user_profile", db) \o WithLock("get_conversations_for_timeframe", db)
         \o WithLock("save_summary", db),
     WithLock("get_user_profile", db) \o WithLock("get_conversations_for_timeframe", db)
         \o LlmCall("summary") \o WithLock("save_summary", db)}

(***************************************************************************)
(* MemoryProcessor.generate_summaries for one timeframe: the latest        *)
(* summary is read and, when one is due, generated.                        *)
(***************************************************************************)
SummarySteps(db) ==
    {WithLock("get_latest_summary", db) \o tf : tf \in TimeframeSteps(db) \cup {<<>>}}

(***************************************************************************)
(* SummaryScheduler._run_scheduler: one round of the loop for one user.    *)
(***************************************************************************)
_run_scheduler ==
    {Unlocked("_get_all_user_ids", "session.db") \o daily \o weekly
         \o <<StepOf("sleep", "none", "time.sleep")>> :
        daily \in SummarySteps("session.db"), weekly \in SummarySteps("session.db")}

(***************************************************************************)
(* DatabaseManager.reset_database: inside its own with block it drops the  *)
(* tables and calls _init_db, which opens a with block on the same lock.   *)
(***************************************************************************)
_init_db(db) == WithLock("_init_db", db)

reset_database(db) ==
    <<StepOf("acquire", db, "reset_database"), StepOf("sql", db, "reset_database")>>
    \o _init_db(db)
    \o <<StepOf("release", db, "reset_database")>>

(***************************************************************************)
(* ContextManager.get_ai_response on the ContextManager's own              *)
(* DatabaseManager, then the page reading the history from the session's.  *)
(***************************************************************************)
ChatSteps ==
    WithLock("save_conversation", "context_manager.db")
    \o LlmCall("_analyze_message")
    \o WithLock("save_message_analysis", "context_manager.db")
    \o LlmCall("process_conversation_for_insights")
    \o WithLock("save_user_insight", "context_manager.db")
    \o LlmCall("_analyze_current_query")
    \o WithLock("get_conversation_history", "context_manager.db")
    \o LlmCall("chat")
    \o WithLock("save_conversation", "context_manager.db")
    \o WithLock("get_conversation_history", "session.db")

(***************************************************************************)
(* What a thread may run next: the script thread a chat turn, the reset    *)
(* button or generate_now; the scheduler thread its loop.                  *)
(***************************************************************************)
Methods(t) ==
    IF t = "scheduler"
    THEN {[name |-> "_run_scheduler", steps |-> p, pos |-> 1] : p \in _run_scheduler}
    ELSE {[name |-> "get_ai_response", steps |-> ChatSteps, pos |-> 1],
          [name |-> "reset_database", steps |-> reset_database("session.db"), pos |-> 1]}
         \cup {[name |-> "generate_now", steps |-> p, pos |-> 1] :
                  p \in TimeframeSteps("session.db")}

Returned_(t) == flow[t].pos > Len(flow[t].steps)

At(t) == flow[t].steps[flow[t].pos]

AtKind(t, kind) == ~Returned_(t) /\ At(t).kind = kind

Advance(t) == flow' = [flow EXCEPT ![t].pos = @ + 1]

Call(t) ==
    /\ Returned_(t)
    /\ \E m \in Methods(t) : flow' = [flow EXCEPT ![t] = m]
    /\ UNCHANGED mutex

Acquire(t) ==
    /\ AtKind(t, "acquire")
    /\ mutex[At(t).db] = "none"
    /\ mutex' = [mutex EXCEPT ![At(t).db] = t]
    /\ Advance(t)

Release(t) ==
    /\ AtKind(t, "release")
    /\ mutex' = [mutex EXCEPT ![At(t).db] = "none"]
    /\ Advance(t)

Sql(t) ==
    /\ AtKind(t, "sql")
    /\ Advance(t)
    /\ UNCHANGED mutex

LlmReturns(t) ==
    /\ AtKind(t, "llm")
    /\ Advance(t)
    /\ UNCHANGED mutex

WakeUp(t) ==
    /\ AtKind(t, "sleep")
    /\ Advance(t)
    /\ UNCHANGED mutex

CallMethod ==
    /\ \E t \in Threads : Call(t)
    /\ UNCHANGED <<now, tz, convVars, topicVars, summaryVars, insightVars, schedVars,
                   swept, lockHolder, storeOp, ctxVars, ghostVars, historyVars, analysed,
                   hourlyVars, laterVars>>

AcquireLock ==
    /\ \E t \in Threads : Acquire(t)
    /\ UNCHANGED <<now, tz, convVars, topicVars, summaryVars, insightVars, schedVars,
                   swept, lockHolder, storeOp, ctxVars, ghostVars, historyVars, analysed,
                   hourlyVars, laterVars>>

ReleaseLock ==
    /\ \E t \in Threads : Release(t)
    /\ UNCHANGED <<now, tz, convVars, topicVars, summaryVars, insightVars, schedVars,
                   swept, lockHolder, storeOp, ctxVars, ghostVars, historyVars, analysed,
                   hourlyVars, laterVars>>

RunSql ==
    /\ \E t \in Threads : Sql(t)
    /\ UNCHANGED <<now, tz, convVars, topicVars, summaryVars, insightVars, schedVars,
                   swept, lockHolder, storeOp, ctxVars, ghostVars, historyVars, analysed,
                   hourlyVars, laterVars>>

LlmAnswers ==
    /\ \E t \in Threads : LlmReturns(t)
    /\ UNCHANGED <<now, tz, convVars, topicVars, summaryVars, insightVars, schedVars,
                   swept, lockHolder, storeOp, ctxVars, ghostVars, historyVars, analysed,
                   hourlyVars, laterVars>>

SleepEnds ==
    /\ \E t \in Threads : WakeUp(t)
    /\ UNCHANGED <<now, tz, convVars, topicVars, summaryVars, insightVars, schedVars,
                   swept, lockHolder, storeOp, ctxVars, ghostVars, historyVars, analysed,
                   hourlyVars, laterVars>>

NextMutex ==
    CallMethod \/ AcquireLock \/ ReleaseLock \/ RunSql \/ LlmAnswers \/ SleepEnds

SpecMutex == Init /\ [][NextMutex]_vars

(***************************************************************************)
(* The send handler of the chat page (app.py:611-650): it saves the user   *)
(* message, calls get_enhanced_ai_response, which returns get_ai_response's*)
(* result, and saves what came back as the assistant's turn.  send.before  *)
(* is the number of stored turns when the handler started; send.failed     *)
(* whether the chat completion raised.                                     *)
(***************************************************************************)
ErrorText == <<6, 6, 6, 6, 6, 6, 6, 6, 6, 6, 6, 6>>

is_duplicate(user_id, message) ==
    LET h == get_conversation_history(user_id)
        recent_messages == LastN(h, 5)
    IN  \E i \in 1..Len(recent_messages) :
            /\ recent_messages[i].role = "user"
            /\ recent_messages[i].content = message
            /\ recent_messages[i].timestamp > LocalNow - 60

SendSaveUser ==
    /\ send.pc = "idle"
    /\ send.n < MaxSends
    /\ turn.pc = "idle"
    /\ ~is_duplicate(TurnUser, TurnMessage)
    /\ save_conversation(TurnUser, "user", TurnMessage)
    /\ send' = [pc |-> "responding", n |-> send.n + 1, before |-> Len(conversations),
                failed |-> FALSE]
    /\ UNCHANGED <<nCalls, firstCall, insightVars, schedVars,
                   swept, lockHolder, storeOp, ctxVars, ghostVars,
                   historyVars, analysed, hourlyVars, mutexVars, sessions, generating>>

(***************************************************************************)
(* get_ai_response has returned: the chat completion failed when the last  *)
(* call of the turn is the read of the history before it.                  *)
(***************************************************************************)
ChatFailed ==
    /\ turn.calls # <<>>
    /\ turn.calls[Len(turn.calls)] = "get_conversation_history"

get_enhanced_ai_response == IF ChatFailed THEN ErrorText ELSE TurnResponse

SendSaveResponse ==
    /\ send.pc = "responding"
    /\ turn.pc = "done"
    /\ save_conversation(TurnUser, "assistant", get_enhanced_ai_response)
    /\ send' = [send EXCEPT !.pc = "done", !.failed = ChatFailed]
    /\ UNCHANGED <<nCalls, firstCall, insightVars, schedVars,
                   swept, lockHolder, storeOp, ctxVars, ghostVars,
                   historyVars, analysed, hourlyVars, mutexVars, sessions, generating>>

InSend == send.pc = "responding"

NextSend ==
    \/ SendSaveUser
    \/ (InSend /\ SaveUserMessage)
    \/ (InSend /\ AnalyzeMessage)
    \/ (InSend /\ ProcessUserInsights)
    \/ (InSend /\ BuildContext)
    \/ (InSend /\ Respond)
    \/ (InSend /\ SaveResponseActionItems)
    \/ (InSend /\ ProcessAiInsights)
    \/ SendSaveResponse

SpecSend == Init /\ [][NextSend]_vars

(***************************************************************************)
(* Sessions.  A row of sessions is [id, user_id, start_time, end_time],    *)
(* end_time being {} for NULL.  start_time is datetime.now() (local time), *)
(* the conversations' timestamps are SQLite's datetime('now') (UTC).       *)
(***************************************************************************)
SessionIdleSeconds == 30 * 60

OpenSessions(rows, user_id) ==
    {i \in 1..Len(rows) : rows[i].user_id = user_id /\ rows[i].end_time = {}}

LastMessageTime(user_id) ==
    LET ts == {conversations[i].timestamp :
                  i \in {i \in 1..Len(conversations) : conversations[i].user_id = user_id}}
    IN  IF ts = {} THEN {} ELSE {CHOOSE t \in ts : \A x \in ts : x <= t}

NewSession(rows, user_id) ==
    Append(rows, [id |-> Len(rows) + 1, user_id |-> user_id,
                  start_time |-> LocalNow, end_time |-> {}])

(***************************************************************************)
(* DatabaseManager.get_current_session_id: the rows of sessions after the  *)
(* call.  The latest open session is kept when the user's last message is  *)
(* at most 30 minutes old; in every other case a row is inserted.          *)
(***************************************************************************)
get_current_session_id(rows, user_id) ==
    IF /\ OpenSessions(rows, user_id) # {}
       /\ \E last_message_time \in LastMessageTime(user_id) :
              LocalNow - last_message_time <= SessionIdleSeconds
    THEN rows
    ELSE NewSession(rows, user_id)

(***************************************************************************)
(* DatabaseManager.end_session                                             *)
(***************************************************************************)
end_session(rows, session_id) ==
    [i \in 1..Len(rows) |->
        IF rows[i].id = session_id THEN [rows[i] EXCEPT !.end_time = {LocalNow}]
        ELSE rows[i]]

SessionUsers == {"u1"}

SessionStep == 16 * 60

(***************************************************************************)
(* ContextManager._save_message: get_current_session_id, then              *)
(* save_conversation.                                                      *)
(***************************************************************************)
_save_message ==
    /\ Len(conversations) < MaxSessionTurns
    /\ \E u \in SessionUsers, role \in Roles, content \in {Short1, Short3} :
          /\ sessions' = get_current_session_id(sessions, u)
          /\ save_conversation(u, role, content)
    /\ Len(sessions') <= MaxSessionRows
    /\ UNCHANGED <<nCalls, firstCall, insightVars, schedVars,
                   swept, lockHolder, storeOp, ctxVars, ghostVars,
                   historyVars, analysed, hourlyVars, mutexVars, send, generating>>

GetCurrentSessionId ==
    /\ \E u \in SessionUsers : sessions' = get_current_session_id(sessions, u)
    /\ Len(sessions') <= MaxSessionRows
    /\ UNCHANGED <<now, tz, convVars, topicVars, summaryVars, insightVars, schedVars,
                   swept, lockHolder, storeOp, ctxVars, ghostVars,
                   historyVars, analysed, hourlyVars, mutexVars, send, generating>>

EndSession ==
    /\ \E i \in 1..Len(sessions) :
          /\ sessions[i].end_time = {}
          /\ sessions' = end_session(sessions, sessions[i].id)
    /\ UNCHANGED <<now, tz, convVars, topicVars, summaryVars, insightVars, schedVars,
                   swept, lockHolder, storeOp, ctxVars, ghostVars,
                   historyVars, analysed, hourlyVars, mutexVars, send, generating>>

TickSession ==
    /\ now + SessionStep <= MaxSessionTicks * SessionStep
    /\ now' = now + SessionStep
    /\ UNCHANGED <<tz, convVars, topicVars, summaryVars, insightVars, schedVars, auxVars>>

NextSession == _save_message \/ GetCurrentSessionId \/ EndSession \/ TickSession

SpecSession == Init /\ [][NextSession]_vars

(***************************************************************************)
(* Two generators.  Each browser session starts a SummaryScheduler with a  *)
(* MemoryProcessor and a DatabaseManager of its own (app.py:68-89), so two *)
(* sessions run generate_summaries for one user at the same time.  The     *)
(* staleness check (get_latest_summary, _summary_needed) and the save      *)
(* (save_summary, after the LLM call) are separate statements of           *)
(* generate_summaries: generating[s] is where session s is between them,   *)
(* and what its last check found.                                          *)
(***************************************************************************)
RaceUser == "u1"

NextTimeframe(pc) ==
    CASE pc = "idle" -> "daily"
      [] pc = "daily" -> "weekly"
      [] OTHER -> "none"

(***************************************************************************)
(* generate_summaries: get_latest_summary and _summary_needed for the next *)
(* timeframe                                                               *)
(***************************************************************************)
CheckStaleness(s) ==
    /\ generating[s].pc \in {"idle", "daily"}
    /\ generating' = [generating EXCEPT ![s] =
          [pc |-> "checked_" \o NextTimeframe(generating[s].pc),
           due |-> SummaryDue(summaries, RaceUser, NextTimeframe(generating[s].pc))]]
    /\ UNCHANGED <<now, tz, convVars, topicVars, summaryVars>>

(***************************************************************************)
(* generate_summaries: generate_timeframe_summary when the check found the *)
(* summary due                                                             *)
(***************************************************************************)
GenerateIfDue(s) ==
    /\ generating[s].pc \in {"checked_daily", "checked_weekly"}
    /\ LET timeframe == IF generating[s].pc = "checked_daily" THEN "daily" ELSE "weekly"
       IN  /\ IF generating[s].due
              THEN \E llm \in LlmSummaryAnswers :
                      generate_timeframe_summary(RaceUser, timeframe, llm)
              ELSE UNCHANGED <<now, tz, convVars, topicVars, summaryVars>>
           /\ generating' = [generating EXCEPT ![s] = [pc |-> timeframe, due |-> FALSE]]

Check ==
    /\ \E s \in Sessions : CheckStaleness(s)
    /\ UNCHANGED <<insightVars, schedVars, swept, lockHolder, storeOp, ctxVars, ghostVars,
                   historyVars, analysed, hourlyVars, mutexVars, send, sessions>>

Generate ==
    /\ \E s \in Sessions : GenerateIfDue(s)
    /\ UNCHANGED <<insightVars, schedVars, swept, lockHolder, storeOp, ctxVars, ghostVars,
                   historyVars, analysed, hourlyVars, mutexVars, send, sessions>>

SaveRaceTurn ==
    /\ Len(conversations) < MaxRaceTurns
    /\ \E role \in Roles : save_conversation(RaceUser, role, Short1)
    /\ UNCHANGED <<nCalls, firstCall, insightVars, schedVars, auxVars>>

NextRace == Check \/ Generate \/ SaveRaceTurn

SpecRace == Init /\ [][NextRace]_vars

(***************************************************************************)
(*                              The claims                                 *)
(***************************************************************************)

(***************************************************************************)
(* C1: when save_conversation(user, role, content) is called twice and the *)
(* second call comes less than the dedup window after the first, the       *)
(* second call returns the identifier the first returned and inserts no    *)
(* row, whatever was saved in between.  firstCall is any earlier call,     *)
(* lastCall the latest one.                                                *)
(***************************************************************************)
C1_SecondCallReturnsFirstId ==
    ( /\ firstCall # None
      /\ lastCall # None
      /\ lastCall.n > firstCall.n
      /\ lastCall.user_id = firstCall.user_id
      /\ lastCall.role = firstCall.role
      /\ lastCall.content = firstCall.content
      /\ lastCall.at - firstCall.at < DedupWindow )
    => (lastCall.ret = firstCall.ret /\ ~lastCall.inserted)

(***************************************************************************)
(* C2: no two stored turns of the same user and role whose timestamps lie  *)
(* within the dedup window of each other have equal content, or content    *)
(* one of which is a substring of the other.                               *)
(***************************************************************************)
C2_NoOverlappingTurnsInWindow ==
    \A i, j \in 1..Len(conversations) :
        ( /\ i < j
          /\ conversations[i].user_id = conversations[j].user_id
          /\ conversations[i].role = conversations[j].role
          /\ conversations[j].timestamp - conversations[i].timestamp <= DedupWindow )
        => ~ \/ conversations[i].content = conversations[j].content
             \/ IsSubstring(conversations[i].content, conversations[j].content)
             \/ IsSubstring(conversations[j].content, conversations[i].content)

(***************************************************************************)
(* Two names are equal ignoring case when they fold to the same text.      *)
(***************************************************************************)
EqualIgnoringCase(a, b) == PyLower(a) = PyLower(b)

(***************************************************************************)
(* The relevance the running average of the claim gives after the first k  *)
(* calls of the log: r1 after one call, (old * (k-1) + r_k) / k after k.   *)
(***************************************************************************)
RECURSIVE RunningAverage(_)
RunningAverage(k) ==
    IF k = 1
    THEN topicLog[1].relevance
    ELSE NewRelevance(RunningAverage(k - 1), k - 1, topicLog[k].relevance)

(***************************************************************************)
(* C3: after n >= 1 update_or_create_topic calls of one user whose names   *)
(* are equal ignoring case, the stored topic has mention_count = n and the *)
(* relevance of the running average; after two calls with scores r1 and r2 *)
(* that is (r1 + r2) / 2 with mention_count 2.                             *)
(***************************************************************************)
C3_RepeatMentionsAccumulate ==
    ( /\ Len(topicLog) >= 1
      /\ \A k \in 1..Len(topicLog) :
            /\ topicLog[k].user_id = topicLog[1].user_id
            /\ EqualIgnoringCase(topicLog[k].name, topicLog[1].name) )
    => \E i \in 1..Len(topics) :
          /\ topics[i].user_id = topicLog[1].user_id
          /\ EqualIgnoringCase(topics[i].name, topicLog[1].name)
          /\ topics[i].mention_count = Len(topicLog)
          /\ topics[i].relevance_score = RunningAverage(Len(topicLog))
          /\ Len(topicLog) = 2 =>
                topics[i].relevance_score =
                    Frac(topicLog[1].relevance[1] * topicLog[2].relevance[2]
                            + topicLog[2].relevance[1] * topicLog[1].relevance[2],
                         2 * topicLog[1].relevance[2] * topicLog[2].relevance[2])

(***************************************************************************)
(* C4: no user has two topic rows whose stored names are equal ignoring    *)
(* case.                                                                   *)
(***************************************************************************)
C4_TopicNamesUniqueIgnoringCase ==
    \A i, j \in 1..Len(topics) :
        (i < j /\ topics[i].user_id = topics[j].user_id)
        => ~EqualIgnoringCase(topics[i].name, topics[j].name)


(***************************************************************************)
(* C5: when get_conversations_for_timeframe returns zero turns,            *)
(* generate_timeframe_summary persists exactly one summary row, equal to   *)
(* the fixed "no activity" document, and makes no call to the LLM service. *)
(* gens holds the generation runs of the step just taken.                  *)
(***************************************************************************)
C5_NoTurnsNoLlmCall ==
    \A k \in 1..Len(gens) :
        gens[k].turns = 0 =>
            /\ ~gens[k].llm_called
            /\ gens[k].rows_added = 1
            /\ gens[k].first_row <= Len(summaries)
            /\ summaries[gens[k].first_row].user_id = gens[k].user_id
            /\ summaries[gens[k].first_row].timeframe = gens[k].timeframe
            /\ summaries[gens[k].first_row].summary = NoActivitySummary

(***************************************************************************)
(* C5's case: a generation found no turn of its user in the window while  *)
(* the store holds a turn, and saved a row.                                *)
(***************************************************************************)
C5_Witness ==
    /\ Len(conversations) > 0
    /\ \E k \in 1..Len(gens) : gens[k].turns = 0 /\ gens[k].rows_added = 1

(***************************************************************************)
(* C7: a new summary row for (user, timeframe) is persisted only when no   *)
(* summary exists for the pair or the latest one's last_updated is at      *)
(* least 24 hours (daily) / 7 days (weekly) old; a second request for a    *)
(* daily summary on the same day creates no second daily row.              *)
(***************************************************************************)
C7_RowOnlyWhenStale ==
    \A k \in 1..Len(gens) :
        gens[k].rows_added > 0 =>
            \/ gens[k].latest = {}
            \/ \E last_updated \in gens[k].latest :
                  gens[k].at - last_updated >=
                      (IF gens[k].timeframe = "daily" THEN DailyAgeDays ELSE WeeklyAgeDays) * Day

(***************************************************************************)
(* C8: a summary persisted for a (user, timeframe) that already has a      *)
(* summary is the merge of the two, so each of its list fields             *)
(* (key_themes, insights_gained, action_items) has at most 5 entries.      *)
(***************************************************************************)
C8_MergedListsAtMostFive ==
    \A k \in 1..Len(gens) :
        (gens[k].latest # {} /\ gens[k].first_row <= Len(summaries)) =>
            LET doc == summaries[gens[k].first_row].summary
            IN  /\ Len(doc.key_themes) <= 5
                /\ Len(doc.insights_gained) <= 5
                /\ Len(doc.action_items) <= 5

(***************************************************************************)
(* C6: when the LLM call of an extraction raises (action items, user       *)
(* insights, topics, emotional metrics), the extractor returns its empty   *)
(* result and raises nothing to its caller.                                *)
(***************************************************************************)
C6_LlmFailureGivesEmptyResult ==
    \A k \in 1..Len(extracted) :
        extracted[k].llm_raised => ~extracted[k].raised /\ extracted[k].count = 0

(***************************************************************************)
(* C9: after any sequence of start() and stop() calls at most one          *)
(* scheduler thread is alive, and a start() call made while a scheduler    *)
(* thread is alive creates no thread.                                      *)
(***************************************************************************)
C9_StartIsIdempotent ==
    /\ Cardinality(AliveThreads) <= 1
    /\ (schedCall.op = "start" /\ schedCall.alive_before) => ~schedCall.created

(***************************************************************************)
(* C9's case: start() was called while the thread of an earlier start()    *)
(* was alive, after a stop() had cleared the flag.                         *)
(***************************************************************************)
C9_Witness ==
    /\ schedCall.op = "start"
    /\ schedCall.alive_before
    /\ ~running

(***************************************************************************)
(* C10: after stop() followed by start() the scheduler runs again: it is   *)
(* never left with a restart requested, no sweep begun since, and no       *)
(* scheduler thread alive to begin one.                                    *)
(***************************************************************************)
C10_RestartedSchedulerSweeps ==
    ~(restartPending /\ AliveThreads = {})

(***************************************************************************)
(* C11: in one sweep a failure while generating summaries for one user     *)
(* does not end the sweep: every user of the users table is reached, and   *)
(* every one that is due has generate_summaries invoked.                   *)
(***************************************************************************)
C11_SweepReachesEveryDueUser ==
    swept # <<>> =>
        \A n \in 1..Len(AllUserIds) :
            /\ Len(swept) >= n
            /\ swept[n].user_id = AllUserIds[n]
            /\ swept[n].due => swept[n].invoked

(***************************************************************************)
(* C11's case: the store failed for the first user of a sweep and the      *)
(* second user, due as well, had generate_summaries invoked.               *)
(***************************************************************************)
C11_Witness ==
    /\ Len(swept) = 2
    /\ swept[1].failed
    /\ swept[2].due /\ swept[2].invoked

(***************************************************************************)
(* C12: accesses to the store are serialized by the persistence mutex: no  *)
(* two flows (foreground and scheduler, or two foreground flows) are       *)
(* inside a persistence operation on the store at the same time.           *)
(***************************************************************************)
C12_StoreAccessSerialized ==
    \A f \in Flows, g \in Flows :
        (f # g /\ InStore(f)) => ~InStore(g)

(***************************************************************************)
(* C13: action-item status is monotonic: no update_action_item_status or   *)
(* mark_action_completed call takes an item that is completed back to      *)
(* pending.                                                                *)
(***************************************************************************)
C13_CompletedStaysCompleted ==
    [][\A i \in 1..Len(action_items) :
          action_items[i].status = "completed" => action_items'[i].status = "completed"]_vars

(***************************************************************************)
(* C14: when the window holds a turn and the summary LLM call (or the      *)
(* validation of its answer) fails, generate_timeframe_summary persists    *)
(* exactly one row, holding the fixed fallback document.                   *)
(***************************************************************************)
C14_LlmFailurePersistsFallback ==
    \A k \in 1..Len(gens) :
        (gens[k].turns > 0 /\ gens[k].llm_raised) =>
            /\ gens[k].rows_added = 1
            /\ summaries[gens[k].first_row].summary = FallbackSummary
            /\ FallbackSummary.key_themes = <<"Technical error prevented detailed analysis">>

(***************************************************************************)
(* C14's case: a generation found a turn, its LLM call failed, and it      *)
(* saved a row.                                                            *)
(***************************************************************************)
C14_Witness ==
    \E k \in 1..Len(gens) :
        gens[k].turns > 0 /\ gens[k].llm_raised /\ gens[k].rows_added = 1

(***************************************************************************)
(* C15: whichever extractions of process_conversation_for_insights fail    *)
(* (LLM call or save raising), every extraction applicable to the          *)
(* message's role is attempted, the results of those that did not fail are *)
(* in the store, and no exception leaves the operation.                    *)
(***************************************************************************)
ApplicableOps(role) ==
    IF role = "user"
    THEN <<"user_insights", "topics", "emotional_metrics">>
    ELSE <<"action_items", "topics">>

Persisted(e) ==
    CASE e.op = "user_insights" ->
             /\ Len(user_insights) = e.size_before + e.count
             /\ \A i \in 1..e.count : user_insights[e.size_before + i].user_id = e.user_id
      [] e.op = "action_items" ->
             /\ Len(action_items) = e.size_before + e.count
             /\ \A i \in 1..e.count : action_items[e.size_before + i].user_id = e.user_id
      [] e.op = "topics" -> Mentions(topics) = e.size_before + e.count
      [] e.op = "emotional_metrics" ->
             /\ Len(progress_metrics) = e.size_before + e.count
             /\ \A i \in 1..e.count : progress_metrics[e.size_before + i].user_id = e.user_id

C15_FailuresDoNotStopOtherExtractions ==
    (extracted # <<>> /\ extracted[1].op # "response_action_items") =>
        LET ops == ApplicableOps(extracted[1].role)
        IN  /\ Len(extracted) = Len(ops)
            /\ \A k \in 1..Len(extracted) :
                   /\ extracted[k].op = ops[k]
                   /\ ~extracted[k].escaped
                   /\ ~extracted[k].save_raised => Persisted(extracted[k])

(***************************************************************************)
(* C15's case: an extraction failed (its extractor raised or its save      *)
(* raised) and a later extraction of the same message saved a result.      *)
(***************************************************************************)
C15_Witness ==
    /\ extracted # <<>>
    /\ extracted[1].op # "response_action_items"
    /\ \E j \in 1..Len(extracted), k \in 1..Len(extracted) :
           /\ j < k
           /\ extracted[j].raised \/ (extracted[j].save_raised /\ extracted[j].count > 0)
           /\ ~extracted[k].save_raised /\ extracted[k].count > 0
           /\ Persisted(extracted[k])

(***************************************************************************)
(* C16: a second run of process_conversation_for_insights on the same      *)
(* message with the same extraction results leaves the stored insights,    *)
(* action items, topics and metrics as the first run left them.            *)
(***************************************************************************)
SameRun(first, second) ==
    /\ first # <<>>
    /\ first[1].op # "response_action_items"
    /\ Len(second) = Len(first)
    /\ \A k \in 1..Len(first) :
           /\ second[k].op = first[k].op
           /\ second[k].user_id = first[k].user_id
           /\ second[k].role = first[k].role
           /\ second[k].raised = first[k].raised
           /\ second[k].result = first[k].result

C16_SecondRunChangesNothing ==
    [][SameRun(extracted, extracted') =>
          /\ user_insights' = user_insights
          /\ action_items' = action_items
          /\ topics' = topics
          /\ progress_metrics' = progress_metrics]_vars

(***************************************************************************)
(* C17: in the block format_context_for_llm produces, a layer's header is  *)
(* followed by at least one data line of that layer; a layer without data  *)
(* is left out.                                                            *)
(***************************************************************************)
Headers ==
    {"RECENT CONVERSATION:", "USER INSIGHTS:", "FROM CODEX VITAE:",
     "CURRENT QUERY ANALYSIS:", "ACTIVE TOPICS:", "ACTION ITEMS:"}

IsData(line) == line.text \notin Headers \cup {""}

C17_HeaderOnlyWithData ==
    \A i \in 1..Len(formatted) :
        formatted[i].text \in Headers =>
            i < Len(formatted) /\ IsData(formatted[i + 1])

(***************************************************************************)
(* C18: the number of entries of the block stays within a fixed constant,  *)
(* the sum of the limits its layers have (3 turns, one line for each of    *)
(* the 6 insight categories, 4 Codex Vitae keys, 3 analysis fields,        *)
(* 5 topics), whatever the store holds.                                    *)
(***************************************************************************)
Entries(block) == SelectSeq(block, IsData)

EntryLimit == 3 + 6 + Len(PriorityKeys) + Len(AnalysisKeys) + TopicLimit

C18_BlockEntriesBounded == Len(Entries(formatted)) <= EntryLimit

(***************************************************************************)
(* C19: when a store call raises inside generate_timeframe_summary,        *)
(* generate_now or process_conversation_for_insights, the caller of the    *)
(* operation sees the failure: an exception leaves the operation, or       *)
(* generate_now returns False.                                             *)
(***************************************************************************)
C19_StoreFailureSurfaced == outcome.store_raised => outcome.surfaced

(***************************************************************************)
(* C20: a conversation turn processed through get_ai_response is followed, *)
(* within that call, by an evaluation of the summary staleness check       *)
(* (generate_summaries) for the user, apart from the scheduler's sweep.    *)
(***************************************************************************)
C20_TurnEvaluatesStaleness ==
    turn.pc = "done" =>
        \E k \in 1..Len(turn.calls) : turn.calls[k] = "generate_summaries"

(***************************************************************************)
(* C21: whatever the interleaving of concurrent save_conversation calls,   *)
(* get_conversation_history returns a user's turns in non-decreasing       *)
(* timestamp order and no turn before a turn that was inserted earlier     *)
(* (ids are given in the order of insertion).                              *)
(***************************************************************************)
C21_HistoryInInsertionOrder ==
    \A i, j \in 1..Len(history) :
        i < j => /\ history[i].timestamp <= history[j].timestamp
                 /\ history[i].id < history[j].id

(***************************************************************************)
(* C22: when the LLM call of the turn's message analysis fails, the        *)
(* analysis used for the turn is the documented default (intent unknown,   *)
(* state neutral, urgency 5, no topics, triggers "none detected"), and no  *)
(* topic is created or updated from it.                                    *)
(***************************************************************************)
C22_FailedAnalysisIsDefault ==
    analysed.failed =>
        /\ \A a \in analysed.used :
              /\ a.primary_intent = DefaultAnalysis.primary_intent
              /\ a.emotional_state = DefaultAnalysis.emotional_state
              /\ a.urgency_level = DefaultAnalysis.urgency_level
              /\ a.topics = DefaultAnalysis.topics
              /\ a.potential_triggers = DefaultAnalysis.potential_triggers
        /\ analysed.topics = <<>>

C24_NoMutexWhileWaiting ==
    \A t \in Threads :
        (AtKind(t, "sleep") \/ AtKind(t, "llm")) =>
            \A db \in DbInstances : mutex[db] # t

(***************************************************************************)
(* The scheduler thread sleeps after a sweep that called the LLM, while    *)
(* the script thread waits for the chat completion after its stores.       *)
(***************************************************************************)
C24_Witness ==
    /\ AtKind("scheduler", "sleep")
    /\ \E i \in 1..Len(flow["scheduler"].steps) : flow["scheduler"].steps[i].kind = "llm"
    /\ AtKind("script", "llm")
    /\ At("script").op = "chat"

(***************************************************************************)
(* C25: reset_database terminates and leaves the persistence mutex         *)
(* released: it never waits for a mutex that the waiting thread itself     *)
(* holds (which nothing would release), and once it has returned the       *)
(* thread holds no mutex.                                                  *)
(***************************************************************************)
C25_ResetReturnsWithMutexReleased ==
    \A t \in Threads :
        flow[t].name = "reset_database" =>
            /\ AtKind(t, "acquire") => mutex[At(t).db] # t
            /\ Returned_(t) => \A db \in DbInstances : mutex[db] # t

(***************************************************************************)
(* C26: generate_now returns True only if the call has persisted a summary *)
(* row, and returns False when the generation failed.  (outcome.surfaced   *)
(* is the negation of generate_now's return value.)                        *)
(***************************************************************************)
C26_GenerateNowReportsOutcome ==
    [][outcome'.op = "generate_now" =>
          /\ ~outcome'.surfaced => Len(summaries') = Len(summaries) + 1
          /\ outcome'.store_raised => outcome'.surfaced]_vars

(***************************************************************************)
(* C27: when the chat completion fails during a send, no assistant turn is *)
(* stored: after the send the stored history differs from the history      *)
(* before it by the one user turn only.                                    *)
(***************************************************************************)
C27_FailedSendStoresUserTurnOnly ==
    (send.pc = "done" /\ send.failed) =>
        /\ Len(conversations) = send.before + 1
        /\ conversations[Len(conversations)].role = "user"

(***************************************************************************)
(* C28: once get_ai_response has processed the assistant's response, every *)
(* action item extracted from that response is stored as exactly one       *)
(* pending row of action_items.                                            *)
(***************************************************************************)
C28_OneRowPerActionItem ==
    turn.pc = "done" =>
        \A i \in 1..Len(action_items) :
            Cardinality({j \in 1..Len(action_items) :
                            /\ action_items[j].user_id = action_items[i].user_id
                            /\ action_items[j].content = action_items[i].content
                            /\ action_items[j].status = "pending"}) = 1

(***************************************************************************)
(* C29: after any sequence of _save_message and get_current_session_id     *)
(* calls every user has at most one open session (end_time NULL).          *)
(***************************************************************************)
C29_AtMostOneOpenSession ==
    \A u \in Users : Cardinality(OpenSessions(sessions, u)) <= 1

(***************************************************************************)
(* C30: when two flows run generate_summaries for one user at the same     *)
(* time, starting with no summary and with no time passing, at most one    *)
(* row per timeframe is persisted.                                         *)
(***************************************************************************)
C30_OneNewRowPerTimeframe ==
    \A timeframe \in Timeframes :
        Cardinality({i \in 1..Len(summaries) :
                        /\ summaries[i].user_id = RaceUser
                        /\ summaries[i].timeframe = timeframe}) <= 1

====
